---- MODULE Spec2Model ----
(***************************************************************************)
(* A model of the ibson BSON codec: the stack-based encoder                *)
(* (ibson/encoder.py, BSONEncoder.dump) and the stack-based, suspendable   *)
(* decoder (ibson/decoder.py, BSONScanner.iterdecode and its materializing *)
(* consumer BSONDecoder.load), over byte streams with a cursor.            *)
(*                                                                         *)
(* Bytes are the integers 0..255.  A text string (a key, a string value)   *)
(* is the sequence of its UTF-8 bytes: encoding it is the identity on that *)
(* sequence, and decoding succeeds on the sequences IsUtf8 accepts.        *)
(***************************************************************************)
EXTENDS Integers, Sequences, FiniteSets, TLC

\* ------------------------------------------------------------------ bounds

\* The largest number of values (scalars and containers) below the root in
\* the documents drawn exhaustively.
MaxNodes == 2
\* The deepest chain of nested containers below the root in the documents
\* drawn as chains.
MaxDepth == 3
\* The largest offset at which the sink stands when dump is called.
MaxStart == 1

\* ------------------------------------------------------------------- state

VARIABLES
    enc_obj,      \* dump: the root value given to dump
    enc_stm,      \* dump: the sink, its bytes and cursor
    enc_stack,    \* dump: current_stack, a sequence of EncoderFrame, top last
    enc_pc,       \* dump: "start", "running", "done" (returned), "raised";
                  \* "unused" when no value is dumped
    enc_key,      \* dump: the key of the pair last taken from the generator
    enc_err,      \* dump: the exception that left dump
    enc_closed    \* dump: history, the frames closed so far, in closing order

enc_vars == <<enc_obj, enc_stm, enc_stack, enc_pc, enc_key, enc_err,
              enc_closed>>

VARIABLES
    dec_src,      \* where the decoded bytes come from: "dumped", "wire",
                  \* "truncated" (a wire document cut short), or "crafted"
                  \* (a document with crafted bytes)
    dec_wire,     \* the elements of a drawn wire document (<<>> when dumped)
    dec_cls,      \* the class of the scanner object built
    dec_consumer, \* who iterates the generator: "load" or "scan"
    dec_mapping,  \* _opcode_mapping: the callback registered for each opcode
    dec_calls,    \* history: the register_opcode calls made on the scanner
    dec_stm,      \* the source, its bytes and cursor
    dec_frames,   \* every DocumentFrame object created, in creation order
    dec_stack,    \* current_stack: indices into dec_frames, top last
    dec_pc,       \* "idle", "constructed", "suspended" (at a yield),
                  \* "resume" (the consumer called next/send), "loop" (at the
                  \* head of the while loop), "returned" (StopIteration),
                  \* "done" (load returned), "raised", "hung"
    dec_at,       \* the yield the generator stands at: "root", "nested",
                  \* "value", "end"
    dec_event,    \* the tuple (frame, key, value) last yielded
    dec_req,      \* client_req: what the consumer sent back
    dec_nested,   \* the locals key, nested_fpos, length, is_array at the
                  \* nested yield
    dec_err,      \* the exception that left the decoder
    dec_result,   \* what load returned
    dec_trace,    \* history: the events yielded, with the cursor at the yield
    dec_skipped   \* history: the indices in dec_trace of the skipped starts

dec_vars == <<dec_src, dec_wire, dec_cls, dec_consumer, dec_mapping,
              dec_calls, dec_stm, dec_frames,
              dec_stack, dec_pc, dec_at, dec_event, dec_req, dec_nested,
              dec_err, dec_result, dec_trace, dec_skipped>>

VARIABLES
    two_running,  \* when two traversals run on one scanner or encoder
                  \* object: which of them (1 or 2) the enc_ and dec_
                  \* variables hold the locals of; 0 when one runs alone
    two_parked    \* the locals of the other traversal, which stands at a
                  \* yield; <<>> when one runs alone

two_vars == <<two_running, two_parked>>

\* ------------------------------------------------------- python values

\* None
PyNone == [t |-> "NoneType"]
PyBool(b) == [t |-> "bool", b |-> b]
\* An int: n is its sign and magnitude (see BigInt).
PyInt(n) == [t |-> "int", n |-> n]
PyStr(s) == [t |-> "str", s |-> s]
\* A value of a type write_value has no branch for (a set, an object()).
Unsupported == [t |-> "set"]
\* A float (its 8 bytes), a datetime (its milliseconds), a bytes object and
\* a UUID (its 16 bytes).
PyFloat(bits) == [t |-> "float", bits |-> bits]
PyDatetime(ms) == [t |-> "datetime", ms |-> ms]
PyBytes(data) == [t |-> "bytes", data |-> data]
PyUUID(data) == [t |-> "UUID", data |-> data]
\* A dict: its (key, value) pairs in insertion order.
PyDict(items) == [t |-> "dict", items |-> items]
\* A list: its elements in index order.
PyList(elems) == [t |-> "list", elems |-> elems]

\* A key is a str (dict keys drawn here, keys parsed by the decoder), an
\* int (the index enumerate() yields for the elements of a list), a bool, a
\* bytes object or bytearray (its bytes), or a value of another type, kept
\* as the text str() gives for it (a float, None).
StrKey(s) == [ks |-> s]
IntKey(n) == [ki |-> n]
BoolKey(b) == [kbool |-> b]
BytesKey(s) == [kb |-> s]
OtherKey(s) == [ko |-> s]
IsStrKey(k) == "ks" \in DOMAIN k
IsIntKey(k) == "ki" \in DOMAIN k

IsContainer(v) == v.t \in {"dict", "list"}

\* ------------------------------------------------------------ integers

Max(a, b) == IF a >= b THEN a ELSE b
Min(a, b) == IF a <= b THEN a ELSE b

\* The digits of str(n) for an int n >= 0, as ASCII bytes.
RECURSIVE DecimalString(_)
DecimalString(n) ==
    IF n < 10 THEN <<48 + n>>
    ELSE Append(DecimalString(n \div 10), 48 + (n % 10))

\* The 4 little-endian bytes of a length or offset n, 0 <= n < 2^31.
LittleEndian32(n) == [i \in 1..4 |-> (n \div (256^(i - 1))) % 256]

\* INT32_STRUCT.unpack of 4 bytes as a number (two's complement).
SignedOf32(bs) ==
    IF bs[4] < 128
    THEN bs[1] + 256 * bs[2] + 65536 * bs[3] + 16777216 * bs[4]
    ELSE -((255 - bs[1]) + 256 * (255 - bs[2]) + 65536 * (255 - bs[3])
            + 16777216 * (255 - bs[4])) - 1

\* A python int is unbounded: it is kept as a sign and a magnitude, the
\* magnitude as little-endian base-256 digits without leading zero digits.
RECURSIVE Normalize(_)
Normalize(mag) ==
    IF mag = <<>> THEN <<>>
    ELSE IF mag[Len(mag)] = 0 THEN Normalize(SubSeq(mag, 1, Len(mag) - 1))
    ELSE mag

BigInt(neg, mag) ==
    LET m == Normalize(mag) IN [neg |-> neg /\ m # <<>>, mag |-> m]

\* The magnitude digits of a number n, 0 <= n < 2^31.
RECURSIVE MagOf(_)
MagOf(n) == IF n = 0 THEN <<>> ELSE <<n % 256>> \o MagOf(n \div 256)

\* The python int of a small number.
BigOf(n) == IF n < 0 THEN BigInt(TRUE, MagOf(-n)) ELSE BigInt(FALSE, MagOf(n))

\* 2^(8k + e) for 0 <= e < 8 as a python int, and its predecessor.
RECURSIVE Zeros(_)
Zeros(k) == IF k = 0 THEN <<>> ELSE <<0>> \o Zeros(k - 1)
RECURSIVE Ones(_)
Ones(k) == IF k = 0 THEN <<>> ELSE <<255>> \o Ones(k - 1)
BigPow2(bits) == BigInt(FALSE, Zeros(bits \div 8) \o <<2^(bits % 8)>>)
BigPow2Minus1(bits) ==
    BigInt(FALSE, Ones(bits \div 8) \o <<2^(bits % 8) - 1>>)
BigNeg(x) == BigInt(~x.neg, x.mag)

\* a < b on magnitudes.
RECURSIVE MagLess(_, _)
MagLess(a, b) ==
    IF Len(a) # Len(b) THEN Len(a) < Len(b)
    ELSE IF a = <<>> THEN FALSE
    ELSE IF a[Len(a)] # b[Len(b)] THEN a[Len(a)] < b[Len(b)]
    ELSE MagLess(SubSeq(a, 1, Len(a) - 1), SubSeq(b, 1, Len(b) - 1))

\* x < y on python ints.
BigLess(x, y) ==
    IF x.neg /\ ~y.neg THEN TRUE
    ELSE IF ~x.neg /\ y.neg THEN FALSE
    ELSE IF x.neg THEN MagLess(y.mag, x.mag)
    ELSE MagLess(x.mag, y.mag)

\* The magnitude padded to w digits.
PadTo(mag, w) == mag \o Zeros(w - Len(mag))

\* digits + 1 over a fixed width (the carry out of the top digit is lost).
RECURSIVE AddOne(_)
AddOne(ds) ==
    IF ds = <<>> THEN <<>>
    ELSE IF Head(ds) = 255 THEN <<0>> \o AddOne(Tail(ds))
    ELSE <<Head(ds) + 1>> \o Tail(ds)

\* The two's complement of fixed-width digits.
TwosComplement(ds) == AddOne([i \in 1..Len(ds) |-> 255 - ds[i]])

\* Whether struct.Struct('<i' / '<q').pack accepts x (w = 4 / 8): exactly
\* the signed range of w bytes; otherwise it raises struct.error.
Packable(x, w) ==
    \/ Len(x.mag) < w
    \/ /\ Len(x.mag) = w
       /\ \/ x.mag[w] < 128
          \/ x.neg /\ x.mag = Zeros(w - 1) \o <<128>>

\* struct pack of a python int in w little-endian two's complement bytes.
PackSigned(x, w) ==
    IF x.neg THEN TwosComplement(PadTo(x.mag, w)) ELSE PadTo(x.mag, w)

\* struct unpack of w bytes as a signed python int.
UnpackSigned(bs) ==
    IF bs[Len(bs)] >= 128 THEN BigInt(TRUE, TwosComplement(bs))
    ELSE BigInt(FALSE, bs)

\* struct unpack of w bytes as an unsigned python int.
UnpackUnsigned(bs) == BigInt(FALSE, bs)

\* ------------------------------------------------------------- streams

\* An io.BytesIO-like stream: its bytes and its cursor (a 0-based offset).
Stream(buf, pos) == [buf |-> buf, pos |-> pos]

\* stm.write(bs): overwrite at the cursor, extending the buffer (a gap left
\* by a seek past the end is zero-filled), and advance the cursor.
StmWrite(stm, bs) ==
    LET n == Len(bs)
        newlen == Max(Len(stm.buf), stm.pos + n)
    IN  IF n = 0 THEN stm
        ELSE [buf |-> [i \in 1..newlen |->
                        IF i > stm.pos /\ i <= stm.pos + n THEN bs[i - stm.pos]
                        ELSE IF i <= Len(stm.buf) THEN stm.buf[i]
                        ELSE 0],
              pos |-> stm.pos + n]

\* The bytes stm.read(n) returns: at most n, fewer at the end of the buffer.
StmPeek(stm, n) ==
    IF stm.pos >= Len(stm.buf) THEN <<>>
    ELSE SubSeq(stm.buf, stm.pos + 1, Min(stm.pos + n, Len(stm.buf)))

\* The stream after stm.read(n).
StmAdvance(stm, n) == [stm EXCEPT !.pos = stm.pos + Len(StmPeek(stm, n))]

\* stm.seek(off, 1): relative seek; past the end is allowed.
StmSeekRel(stm, off) == [stm EXCEPT !.pos = stm.pos + off]

\* stm.seek(pos)
StmSeekAbs(stm, pos) == [stm EXCEPT !.pos = pos]

\* -------------------------------------------------------------- inputs

\* The key of the i-th pair of a drawn dict: "a", "b.c", "c", "d", ...
KeyAt(i) == IF i = 2 THEN <<98, 46, 99>> ELSE <<96 + i>>

\* The dict whose i-th value is f[i].
DictOf(f) == PyDict([i \in 1..Len(f) |-> <<StrKey(KeyAt(i)), f[i]>>])

\* The scalar values drawn: None, True, 123 (int32), 2**33 (int64), 'a', and
\* a value of a type without an encoding.
Leaves ==
    {PyNone, PyBool(TRUE), PyInt(BigOf(123)), PyInt(BigPow2(33)),
     PyStr(<<97>>), Unsupported}

\* The value trees of exactly n nodes, and the sequences of trees of
\* exactly n nodes in total.
RECURSIVE TreesExact(_), ForestsExact(_)
TreesExact(n) ==
    (IF n = 1 THEN Leaves ELSE {})
      \cup {DictOf(f) : f \in ForestsExact(n - 1)}
      \cup {PyList(f) : f \in ForestsExact(n - 1)}
ForestsExact(n) ==
    IF n = 0 THEN {<<>>}
    ELSE UNION {{<<t>> \o f : t \in TreesExact(k), f \in ForestsExact(n - k)} :
                k \in 1..n}

\* Every dict with at most MaxNodes values below it.
SmallDocuments ==
    UNION {{DictOf(f) : f \in ForestsExact(n)} : n \in 0..MaxNodes}

\* A chain: containers of the types given nested in one another, the
\* innermost holding the leaf.
RECURSIVE Chain(_, _)
Chain(types, leaf) ==
    IF types = <<>> THEN leaf
    ELSE IF Head(types) = "dict" THEN DictOf(<<Chain(Tail(types), leaf)>>)
    ELSE PyList(<<Chain(Tail(types), leaf)>>)

\* The sequences over S of length 1..n.
RECURSIVE SeqsUpTo(_, _)
SeqsUpTo(S, n) ==
    IF n = 0 THEN {}
    ELSE {<<x>> : x \in S}
           \cup SeqsUpTo(S, n - 1)
           \cup {Append(q, x) : q \in SeqsUpTo(S, n - 1), x \in S}

\* Every dict holding a chain of at most MaxDepth containers, alone or
\* followed by a sibling value.
DeepDocuments ==
    {DictOf(<<Chain(types, leaf)>> \o sibling) :
        types \in SeqsUpTo({"dict", "list"}, MaxDepth),
        leaf \in Leaves,
        sibling \in {<<>>, <<PyStr(<<98>>)>>}}

\* The ints drawn around the bounds of the 32-bit and 64-bit ranges:
\* -2**63, -2**31 - 1, -2**31, -1, 0, 2**31 - 1, 2**31, 2**32 - 1, 2**32,
\* 2**63 - 1.
BoundaryInts ==
    {BigNeg(BigPow2(63)), BigInt(TRUE, <<1, 0, 0, 128>>), BigNeg(BigPow2(31)),
     BigOf(-1), BigOf(0), BigPow2Minus1(31), BigPow2(31), BigPow2Minus1(32),
     BigPow2(32), BigPow2Minus1(63)}

\* The scalars drawn one at a time: False, the boundary ints, b'xy', and the
\* UUID of the bytes 1 .. 16.
ScalarLeaves ==
    {PyBool(FALSE), PyBytes(<<120, 121>>), PyUUID([i \in 1..16 |-> i])}
      \cup {PyInt(n) : n \in BoundaryInts}

\* Every dict holding one of these scalars.
ScalarDocuments == {DictOf(<<v>>) : v \in ScalarLeaves}

\* The document of the tests: dict(value=123).
LiteralDocuments ==
    {PyDict(<<<<StrKey(<<118, 97, 108, 117, 101>>), PyInt(BigOf(123))>>>>)}

\* The most values drawn side by side in one container, and the length of
\* the one long list drawn (its last indices have two digits).
MaxWidth == 3
LongLen == 11

\* The values drawn side by side: 123, {'a': None}, [None].
WideElems == {PyInt(BigOf(123)), DictOf(<<PyNone>>), PyList(<<PyNone>>)}

\* Every dict holding up to MaxWidth of these values, or one list of up to
\* MaxWidth of them, or the long list of None.
WideDocuments ==
    {DictOf(es) : es \in SeqsUpTo(WideElems, MaxWidth)}
      \cup {DictOf(<<PyList(es)>>) : es \in SeqsUpTo(WideElems, MaxWidth)}
      \cup {DictOf(<<PyList([i \in 1..LongLen |-> PyNone])>>)}

\* Every dict holding None under one key that is not a str: 7, True,
\* False, b'kb', 1.5, None.
KeyDocuments ==
    {PyDict(<<<<k, PyNone>>>>) :
        k \in {IntKey(7), BoolKey(TRUE), BoolKey(FALSE),
               BytesKey(<<107, 98>>), OtherKey(<<49, 46, 53>>),
               OtherKey(<<78, 111, 110, 101>>)}}

\* The documents given to dump.
RootDocuments ==
    SmallDocuments \cup DeepDocuments \cup ScalarDocuments
      \cup LiteralDocuments \cup WideDocuments \cup KeyDocuments

\* Roots that are not a document.
NonDocumentRoots == {PyList(<<>>), PyList(<<PyInt(BigOf(123))>>),
                     PyStr(<<97>>), PyInt(BigOf(123)), PyNone}

\* A wire element: its tag, its key, and its payload bytes, or for tag
\* 0x03 / 0x04 the elements of the nested frame.
WireScalar(tag, key, payload) ==
    [tag |-> tag, key |-> key, payload |-> payload, elems |-> <<>>]
WireContainer(tag, key, elems) ==
    [tag |-> tag, key |-> key, payload |-> <<>>, elems |-> elems]

\* The bytes of a frame and of a sequence of elements, after the grammar:
\* document ::= int32 e_list 0x00, element ::= tag e_name value.
RECURSIVE WireFrame(_), WireElements(_)
WireFrame(elems) ==
    LET body == WireElements(elems)
    IN  LittleEndian32(Len(body) + 5) \o body \o <<0>>
WireElements(elems) ==
    IF elems = <<>> THEN <<>>
    ELSE LET e == Head(elems)
         IN  <<e.tag>> \o e.key \o <<0>>
               \o (IF e.tag \in {3, 4} THEN WireFrame(e.elems) ELSE e.payload)
               \o WireElements(Tail(elems))

\* The int32 element key: 1.
WireInt32(key) == WireScalar(16, key, <<1, 0, 0, 0>>)

\* The longest array drawn on the wire.
MaxArrayLen == 2

\* The keys drawn for the elements of a wire array: "0", "1", "2", "x".
WireArrayKeys == {<<48>>, <<49>>, <<50>>, <<120>>}

\* Documents holding one array whose element keys are drawn freely, alone
\* or followed by a sibling.
WireArrayDocuments ==
    {<<WireContainer(4, <<118>>, [i \in 1..Len(ks) |-> WireInt32(ks[i])])>>
       \o sibling :
        ks \in {<<>>} \cup SeqsUpTo(WireArrayKeys, MaxArrayLen),
        sibling \in {<<>>, <<WireInt32(<<122>>)>>}}

\* Tags drawn for one element: the registered 0x10, 0x0A, and tags without
\* a registered callback (0x07, 0x0B .. 0x0F, 0x13, 0x14).
WireTags == {10, 16, 7, 11, 12, 13, 14, 15, 19, 20}

\* Documents holding one element of a drawn tag (an int32 payload, none
\* for 0x0A), alone, after, or before an int32 element.
WireTagDocuments ==
    {before \o <<WireScalar(tag, <<116>>,
                            IF tag = 10 THEN <<>> ELSE <<1, 0, 0, 0>>)>>
       \o after :
        tag \in WireTags,
        before \in {<<>>, <<WireInt32(<<121>>)>>},
        after \in {<<>>, <<WireInt32(<<122>>)>>}}

\* The values drawn for a key that occurs more than once: the int32 values
\* 1 and 2, an empty document and an empty array.
WireDuplicateValues(key) ==
    {WireInt32(key), WireScalar(16, key, <<2, 0, 0, 0>>),
     WireContainer(3, key, <<>>), WireContainer(4, key, <<>>)}

\* Documents in which the key 'a' occurs twice, the two elements adjacent
\* or with another key between them.
WireDuplicateDocuments ==
    {<<first>> \o between \o <<last>> :
        first \in WireDuplicateValues(<<97>>),
        last \in WireDuplicateValues(<<97>>),
        between \in {<<>>, <<WireInt32(<<121>>)>>}}

\* The documents cut short: {'ab': 5, 's': 'x'} and {'k': {'a': 1}}.
WireTruncatedDocuments ==
    {<<WireScalar(16, <<97, 98>>, <<5, 0, 0, 0>>),
       WireScalar(2, <<115>>, <<2, 0, 0, 0, 120, 0>>)>>,
     <<WireContainer(3, <<107>>, <<WireInt32(<<97>>)>>)>>}

\* The wire documents decoded without having been dumped.
WireDocuments ==
    WireArrayDocuments \cup WireTagDocuments \cup WireDuplicateDocuments

\* The size of the chunks parse_ename reads.
ChunkSize == 1024

\* Documents holding one int32 element whose key is empty, or ends just
\* before, at, or just after the end of the first or of the second chunk
\* parse_ename reads, alone or after another element.
WireLongKeyDocuments ==
    {before \o <<WireInt32([i \in 1..n |-> 107])>> :
        n \in {0, ChunkSize - 2, ChunkSize - 1, ChunkSize,
               2 * ChunkSize - 1, 2 * ChunkSize},
        before \in {<<>>, <<WireInt32(<<121>>)>>}}

\* Documents holding one int32 element whose key is not UTF-8 (0xFF, and
\* 0xC3 followed by '('), or is the UTF-8 of U+00E9.
WireBadKeyDocuments ==
    {<<WireInt32(k)>> : k \in {<<255>>, <<195, 40>>, <<195, 169>>}}

\* Documents holding one string element, alone or followed by an int32
\* element.  Its length n and the bytes after it: 2 and 'x' 00; 1 and 00;
\* 2 and 'xy'; 0 and nothing; -1 and 'x' 00; 5 and 'x' 00; 2 and FF 00.
WireStringDocuments ==
    {<<WireScalar(2, <<115>>, payload)>> \o after :
        payload \in {<<2, 0, 0, 0, 120, 0>>, <<1, 0, 0, 0, 0>>,
                     <<2, 0, 0, 0, 120, 121>>, <<0, 0, 0, 0>>,
                     <<255, 255, 255, 255, 120, 0>>, <<5, 0, 0, 0, 120, 0>>,
                     <<2, 0, 0, 0, 255, 0>>},
        after \in {<<>>, <<WireInt32(<<122>>)>>}}

\* The documents decoded with a root length field drawn freely: {} and
\* {'a': 1}.
WireLengthDocuments == {<<>>, <<WireInt32(<<97>>)>>}

\* The values drawn for the root length field of a crafted source: for a
\* document of WireLengthDocuments the length n of its frame, 0, -1, 4,
\* n - 1 and n + 1; for any other document n.
RootLengths(elems) ==
    LET n == Len(WireFrame(elems))
    IN  IF elems \in WireLengthDocuments THEN {n, 0, -1, 4, n - 1, n + 1}
        ELSE {n}

\* Documents holding one element of tag 0x11 whose 8 payload bytes hold 0,
\* 1, 2^32, 2^63 - 1, 2^63, 2^64 - 1000 or 2^64 - 1.
WireCounterDocuments ==
    {<<WireScalar(17, <<116>>, payload)>> :
        payload \in {<<0, 0, 0, 0, 0, 0, 0, 0>>, <<1, 0, 0, 0, 0, 0, 0, 0>>,
                     <<0, 0, 0, 0, 1, 0, 0, 0>>,
                     <<255, 255, 255, 255, 255, 255, 255, 127>>,
                     <<0, 0, 0, 0, 0, 0, 0, 128>>,
                     <<24, 252, 255, 255, 255, 255, 255, 255>>,
                     <<255, 255, 255, 255, 255, 255, 255, 255>>}}

\* The documents whose bytes are crafted one by one.
CraftedDocuments ==
    WireLongKeyDocuments \cup WireBadKeyDocuments \cup WireStringDocuments
      \cup WireLengthDocuments \cup WireCounterDocuments

\* ------------------------------------------------------------- errors.py

NoError == [type |-> "none", key |-> <<>>]
Error(type, key) == [type |-> type, key |-> key]

\* str.format of a key: a str as it is, an int as its decimal string, a
\* bool as True / False, bytes as their literal b'...', any other key as
\* its str().
FormatKey(key) ==
    IF IsStrKey(key) THEN key.ks
    ELSE IF IsIntKey(key) THEN DecimalString(key.ki)
    ELSE IF "kbool" \in DOMAIN key
    THEN (IF key.kbool THEN <<84, 114, 117, 101>>
          ELSE <<70, 97, 108, 115, 101>>)
    ELSE IF "kb" \in DOMAIN key THEN <<98, 39>> \o key.kb \o <<39>>
    ELSE key.ko

\* s.replace('.', '\\.')
RECURSIVE EscapeDots(_)
EscapeDots(s) ==
    IF s = <<>> THEN <<>>
    ELSE (IF Head(s) = 46 THEN <<92, 46>> ELSE <<Head(s)>>)
           \o EscapeDots(Tail(s))

\* '.'.join(parts)
RECURSIVE JoinDots(_)
JoinDots(parts) ==
    IF parts = <<>> THEN <<>>
    ELSE IF Len(parts) = 1 THEN parts[1]
    ELSE parts[1] \o <<46>> \o JoinDots(Tail(parts))

\* BSONEncodeError.update_with_stack: frame.key.replace(...) exists for a
\* str key only; for a frame keyed by an int it raises AttributeError.
\* Otherwise the error's key becomes '<joined frame keys>.<key>'.
update_with_stack(stk, key) ==
    IF \E i \in 1..Len(stk) : ~IsStrKey(stk[i].key)
    THEN Error("AttributeError", <<>>)
    ELSE Error("BSONEncodeError",
               JoinDots([i \in 1..Len(stk) |-> EscapeDots(stk[i].key.ks)])
                 \o <<46>> \o FormatKey(key))

\* ------------------------------------------------------------ encoder.py

INT32_LOWERBOUND == BigNeg(BigPow2(31))
INT32_UPPERBOUND == BigPow2Minus1(32)

\* What a write routine leaves: the stream, and the exception it raised
\* ("none" when it returned).
Returned(stm) == [stm |-> stm, exc |-> "none"]
Raised(stm, exc) == [stm |-> stm, exc |-> exc]

\* EncoderFrame: parent is the stack index of the parent frame (0: None);
\* object_iterator is the sequence of the pairs not yet taken from it.
EncoderFrame(key, fpos, parent, object_iterator) ==
    [key |-> key, starting_fpos |-> fpos, parent |-> parent,
     object_iterator |-> object_iterator]

\* A variant of the iteration that counts the elements of a list from 1.
ItemsOfOneBased(val) ==
    IF val.t = "dict" THEN val.items
    ELSE [i \in 1..Len(val.elems) |-> <<IntKey(i), val.elems[i]>>]

\* dict.items() and enumerate(list) as sequences of (key, value) pairs.
ItemsOf(val) ==
    IF val.t = "dict" THEN val.items
    ELSE [i \in 1..Len(val.elems) |-> <<IntKey(i - 1), val.elems[i]>>]

\* _write_raw_key: a bytes key is written as it is; an int key (a bool is
\* an int) is written as str(key); a key that is neither bytes, int nor
\* str reaches BSONEncodeError(<one argument>), a TypeError.
write_raw_key(key, stm) ==
    IF "kb" \in DOMAIN key THEN Returned(StmWrite(stm, key.kb \o <<0>>))
    ELSE IF IsIntKey(key) \/ "kbool" \in DOMAIN key
    THEN Returned(StmWrite(stm, FormatKey(key) \o <<0>>))
    ELSE IF IsStrKey(key) THEN Returned(StmWrite(stm, key.ks \o <<0>>))
    ELSE Raised(stm, "TypeError")

\* The opcode, the key, then the payload; the payload is not written when
\* the key raised.
WriteElement(opcode, key, payload, stm) ==
    LET k == write_raw_key(key, StmWrite(stm, <<opcode>>))
    IN  IF k.exc # "none" THEN k ELSE Returned(StmWrite(k.stm, payload))

\* A variant of the packed write that takes the opcode and the key back out
\* of the sink when pack raises.
WritePackedRolledBack(opcode, key, val, width, stm) ==
    LET k == write_raw_key(key, StmWrite(stm, <<opcode>>))
    IN  IF k.exc # "none" THEN k
        ELSE IF ~Packable(val, width) THEN Raised(stm, "struct.error")
        ELSE Returned(StmWrite(k.stm, PackSigned(val, width)))

\* An element whose payload is INT32_STRUCT.pack(val) / INT64_STRUCT.pack(val):
\* the opcode and key are written before pack raises struct.error.
WritePacked(opcode, key, val, width, stm) ==
    LET k == write_raw_key(key, StmWrite(stm, <<opcode>>))
    IN  IF k.exc # "none" THEN k
        ELSE IF ~Packable(val, width) THEN Raised(k.stm, "struct.error")
        ELSE Returned(StmWrite(k.stm, PackSigned(val, width)))

write_null(key, stm) == WriteElement(10, key, <<>>, stm)

write_bool(key, val, stm) ==
    WriteElement(8, key, IF val THEN <<1>> ELSE <<0>>, stm)

\* A variant of write_int32 that writes the value as write_int64 does.
write_int32_as_int64(key, val, stm) == WritePacked(18, key, val, 8, stm)

write_int32(key, val, stm) == WritePacked(16, key, val, 4, stm)

write_int64(key, val, stm) == WritePacked(18, key, val, 8, stm)

write_string(key, val, stm) ==
    WriteElement(2, key, LittleEndian32(Len(val) + 1) \o val \o <<0>>, stm)

\* write_uuid: the opcode, the key and the length are written, then
\* stm.write(len(data)) is given an int: TypeError.
write_uuid(key, val, stm) ==
    LET k == write_raw_key(key, StmWrite(stm, <<5>>))
    IN  IF k.exc # "none" THEN k
        ELSE Raised(StmWrite(k.stm, LittleEndian32(Len(val))), "TypeError")

\* write_bytes: the opcode, the key, the length, the subtype 0x00 and the
\* bytes.  write_value never calls it.
write_bytes(key, val, stm) ==
    WriteElement(5, key, LittleEndian32(Len(val)) \o <<0>> \o val, stm)

\* self.write_binary(key, val, stm): BSONEncoder has no such attribute.
write_binary(key, val, stm) == Raised(stm, "AttributeError")

\* A variant of write_value that tests for int before bool: a bool is an
\* int, so True and False are written as the int32 values 1 and 0.
write_value_int_before_bool(key, val, stm) ==
    IF val.t = "NoneType" THEN write_null(key, stm)
    ELSE IF val.t = "bool"
    THEN write_int32(key, BigOf(IF val.b THEN 1 ELSE 0), stm)
    ELSE IF val.t = "int"
    THEN IF BigLess(val.n, INT32_LOWERBOUND) \/ BigLess(INT32_UPPERBOUND, val.n)
         THEN write_int64(key, val.n, stm)
         ELSE write_int32(key, val.n, stm)
    ELSE IF val.t = "str" THEN write_string(key, val.s, stm)
    ELSE IF val.t = "UUID" THEN write_uuid(key, val.data, stm)
    ELSE IF val.t = "bytes" THEN write_binary(key, val.data, stm)
    ELSE Raised(stm, "BSONEncodeError")

\* write_value: the classification order of the isinstance chain.
write_value(key, val, stm) ==
    IF val.t = "NoneType" THEN write_null(key, stm)
    ELSE IF val.t = "bool" THEN write_bool(key, val.b, stm)
    ELSE IF val.t = "int"
    THEN IF BigLess(val.n, INT32_LOWERBOUND) \/ BigLess(INT32_UPPERBOUND, val.n)
         THEN write_int64(key, val.n, stm)
         ELSE write_int32(key, val.n, stm)
    ELSE IF val.t = "str" THEN write_string(key, val.s, stm)
    ELSE IF val.t = "UUID" THEN write_uuid(key, val.data, stm)
    ELSE IF val.t = "bytes" THEN write_binary(key, val.data, stm)
    ELSE Raised(stm, "BSONEncodeError")

\* write_document / write_array up to the creation of the frame: the opcode
\* and the key.
WriteContainerHead(key, val, stm) ==
    write_raw_key(key, StmWrite(stm, IF val.t = "dict" THEN <<3>> ELSE <<4>>))

\* A variant of _write_length_for_frame that takes the position before the
\* terminator is written, so that the length leaves the terminator out.
write_length_before_terminator(stm, frame) ==
    LET curr_pos == stm.pos
        length == curr_pos - frame.starting_fpos
        s1 == StmWrite(stm, <<0>>)
        s2 == StmWrite(StmSeekAbs(s1, frame.starting_fpos), LittleEndian32(length))
    IN  StmSeekAbs(s2, s1.pos)

\* A variant of _write_length_for_frame that does not seek forward again:
\* the cursor stays after the length field.
write_length_without_return(stm, frame) ==
    LET s1 == StmWrite(stm, <<0>>)
        length == s1.pos - frame.starting_fpos
    IN  StmWrite(StmSeekAbs(s1, frame.starting_fpos), LittleEndian32(length))

\* _write_length_for_frame: the terminator, then the length backpatched at
\* the frame's start, then the cursor back after the terminator.
write_length_for_frame(stm, frame) ==
    LET s1 == StmWrite(stm, <<0>>)
        curr_pos == s1.pos
        length == curr_pos - frame.starting_fpos
        s2 == StmWrite(StmSeekAbs(s1, frame.starting_fpos),
                       LittleEndian32(length))
    IN  StmSeekAbs(s2, curr_pos)

\* ------------------------------------------------------------ decoder.py

\* What a parse routine leaves: the stream, the exception it raised ("none"
\* when it returned; "hang" when it never returns), and the value parsed.
Parsed(stm, val) == [stm |-> stm, exc |-> "none", val |-> val]
ParseRaised(stm, exc) == [stm |-> stm, exc |-> exc, val |-> PyNone]

\* A struct read of exactly w bytes: struct.error on a short read.
ReadStruct(stm, w) ==
    IF Len(StmPeek(stm, w)) < w THEN ParseRaised(StmAdvance(stm, w), "struct.error")
    ELSE Parsed(StmAdvance(stm, w), StmPeek(stm, w))

\* parse_int32 as a number: the length fields.
parse_int32(stm) ==
    LET r == ReadStruct(stm, 4)
    IN  IF r.exc # "none" THEN r ELSE Parsed(r.stm, SignedOf32(r.val))

\* parse_int32 / parse_int64 as a registered callback: a python int.
parse_int(stm, w) ==
    LET r == ReadStruct(stm, w)
    IN  IF r.exc # "none" THEN r ELSE Parsed(r.stm, PyInt(UnpackSigned(r.val)))

parse_byte(stm) ==
    LET r == ReadStruct(stm, 1)
    IN  IF r.exc # "none" THEN r ELSE Parsed(r.stm, r.val[1])

parse_64bit_float(stm) ==
    LET r == ReadStruct(stm, 8)
    IN  IF r.exc # "none" THEN r ELSE Parsed(r.stm, PyFloat(r.val))

\* The milliseconds datetime.fromtimestamp turns into a datetime of the
\* years 1 to 9999: -62135596800000 .. 253402300799999.
DatetimeMin == BigInt(TRUE, <<0, 216, 44, 18, 131, 56>>)
DatetimeMax == BigInt(FALSE, <<255, 219, 31, 210, 119, 230>>)

\* parse_utc_datetime, and parse_datetime which calls it: a signed 64-bit
\* count of milliseconds turned into a datetime by fromtimestamp, which
\* raises ValueError for a year out of range.
parse_utc_datetime(stm) ==
    LET r == ReadStruct(stm, 8)
        utc_ms == UnpackSigned(r.val)
    IN  IF r.exc # "none" THEN r
        ELSE IF BigLess(utc_ms, DatetimeMin) \/ BigLess(DatetimeMax, utc_ms)
        THEN ParseRaised(r.stm, "ValueError")
        ELSE Parsed(r.stm, PyDatetime(utc_ms))

\* _scan_for_null_terminator: the 0-based index of the first zero, or -1.
scan_for_null_terminator(buff) ==
    LET zeros == {i \in 1..Len(buff) : buff[i] = 0}
    IN  IF zeros = {} THEN -1
        ELSE (CHOOSE i \in zeros : \A j \in zeros : i <= j) - 1

\* bytes.decode('utf-8') succeeds: well-formed UTF-8 (no overlong forms, no
\* surrogates, nothing above U+10FFFF).  Every byte that is not a
\* continuation byte leads a character of Utf8Length bytes, and every
\* continuation byte follows the lead byte of its character.
Continuation(b) == b >= 128 /\ b <= 191
Utf8Length(b) ==
    IF b < 128 THEN 1
    ELSE IF b >= 194 /\ b <= 223 THEN 2
    ELSE IF b >= 224 /\ b <= 239 THEN 3
    ELSE IF b >= 240 /\ b <= 244 THEN 4
    ELSE 0
IsUtf8(bs) ==
    \A i \in 1..Len(bs) :
        LET b == bs[i]
            n == Utf8Length(b)
        IN  IF Continuation(b)
            THEN \E k \in 1..Min(3, i - 1) :
                     /\ Utf8Length(bs[i - k]) > k
                     /\ \A m \in 1..(k - 1) : Continuation(bs[i - m])
            ELSE /\ n >= 1
                 /\ i + n - 1 <= Len(bs)
                 /\ \A m \in 1..(n - 1) : Continuation(bs[i + m])
                 /\ (b = 224 => bs[i + 1] >= 160)
                 /\ (b = 237 => bs[i + 1] <= 159)
                 /\ (b = 240 => bs[i + 1] >= 144)
                 /\ (b = 244 => bs[i + 1] <= 143)

\* A variant of parse_ename's loop that keeps only the chunk in which the
\* zero byte is found.
RECURSIVE ename_loop_last_chunk(_, _)
ename_loop_last_chunk(stm, data) ==
    LET peeked_data == StmPeek(stm, ChunkSize)
        after == StmAdvance(stm, ChunkSize)
        index == scan_for_null_terminator(peeked_data)
    IN  IF index < 0
        THEN IF peeked_data = <<>> THEN ParseRaised(after, "hang")
             ELSE ename_loop_last_chunk(after, data \o peeked_data)
        ELSE Parsed(StmSeekRel(after, index - Len(peeked_data) + 1),
                    SubSeq(peeked_data, 1, index + 1))

\* parse_ename's loop: read a chunk, scan it, accumulate it when it holds
\* no zero byte, else take the bytes up to the zero byte and seek back over
\* the rest.  At the end of the source read() returns b'' for ever: the
\* loop never ends.
RECURSIVE ename_loop(_, _)
ename_loop(stm, data) ==
    LET peeked_data == StmPeek(stm, ChunkSize)
        after == StmAdvance(stm, ChunkSize)
        index == scan_for_null_terminator(peeked_data)
    IN  IF index < 0
        THEN IF peeked_data = <<>> THEN ParseRaised(after, "hang")
             ELSE ename_loop(after, data \o peeked_data)
        ELSE Parsed(StmSeekRel(after, index - Len(peeked_data) + 1),
                    data \o SubSeq(peeked_data, 1, index + 1))

\* parse_ename(stm): the terminator is dropped; the bytes are returned as
\* a str when they decode as UTF-8 and as the bytearray itself otherwise.
parse_ename(stm) ==
    LET r == ename_loop(stm, <<>>)
        data == SubSeq(r.val, 1, Len(r.val) - 1)
    IN  IF r.exc # "none" THEN r
        ELSE Parsed(r.stm, IF IsUtf8(data) THEN StrKey(data) ELSE BytesKey(data))

\* stm.read(n) for any n: a negative n reads to the end.
ReadCount(stm, n) == IF n < 0 THEN Len(stm.buf) + 1 ELSE n

\* data[i] for a python index i (negative: from the end) is in range.
IndexInRange(data, i) == i < Len(data) /\ i >= -Len(data)
IndexGet(data, i) == IF i >= 0 THEN data[i + 1] ELSE data[Len(data) + i + 1]

\* parse_utf8_string
parse_utf8_string(stm) ==
    LET r == parse_int32(stm)
        length == r.val
        data == StmPeek(r.stm, ReadCount(r.stm, length))
        after == StmAdvance(r.stm, ReadCount(r.stm, length))
        text == SubSeq(data, 1, Len(data) - 1)
    IN  IF r.exc # "none" THEN r
        ELSE IF ~IndexInRange(data, length - 1)
        THEN ParseRaised(after, "IndexError")
        ELSE IF IndexGet(data, length - 1) # 0
        THEN ParseRaised(after, "AssertionError")
        ELSE IF ~IsUtf8(text) THEN ParseRaised(after, "UnicodeDecodeError")
        ELSE Parsed(after, PyStr(text))

\* parse_bool
parse_bool(stm) ==
    LET buff == StmPeek(stm, 1)
        after == StmAdvance(stm, 1)
    IN  IF buff = <<>> THEN ParseRaised(after, "IndexError")
        ELSE IF buff[1] = 0 THEN Parsed(after, PyBool(FALSE))
        ELSE IF buff[1] = 1 THEN Parsed(after, PyBool(TRUE))
        ELSE ParseRaised(after, "Exception")

\* parse_binary: uuid.UUID(bytes=data) raises ValueError unless data has
\* 16 bytes.
parse_binary(stm) ==
    LET r == parse_int32(stm)
        t == parse_byte(r.stm)
        length == r.val
        data == StmPeek(t.stm, ReadCount(t.stm, length))
        after == StmAdvance(t.stm, ReadCount(t.stm, length))
    IN  IF r.exc # "none" THEN r
        ELSE IF t.exc # "none" THEN t
        ELSE IF t.val \in {3, 4}
        THEN IF Len(data) = 16 THEN Parsed(after, PyUUID(data))
             ELSE ParseRaised(after, "ValueError")
        ELSE Parsed(after, PyBytes(data))

\* The opcodes of BSONScanner.__init__'s _opcode_mapping.
RegisteredOpcodes == {1, 2, 5, 6, 8, 9, 10, 16, 17, 18, 127, 255}

\* _opcode_mapping as __init__ builds it: each opcode with its built-in
\* callback.
OpcodeMapping == [o \in RegisteredOpcodes |-> "builtin"]

\* The opcodes register_opcode is called with: the terminator, the nested
\* document, the nested array, one without a callback, one with a callback.
RegisterableOpcodes == {0, 3, 4, 7, 16}

\* The most register_opcode calls made on one scanner.
MaxRegistrations == 1

\* What the callback registered here returns: it reads nothing from stm.
CustomResult == [t |-> "custom"]

\* register_opcode: self._opcode_mapping[opcode] = callback; it rejects
\* nothing and returns None.
register_opcode(mapping, opcode, callback) ==
    [o \in DOMAIN mapping \cup {opcode} |->
        IF o = opcode THEN callback ELSE mapping[o]]

\* process_opcode: the registered callback's result, or the plain
\* Exception("Invalid opcode: ...") when the mapping has no callback.
\* 0x06 is scan_undefined, 0x0A / 0x7F / 0xFF return the configured
\* objects (None by default).
process_opcode(mapping, opcode, stm) ==
    IF opcode \notin DOMAIN mapping THEN ParseRaised(stm, "Exception")
    ELSE IF mapping[opcode] = "custom" THEN Parsed(stm, CustomResult)
    ELSE IF opcode = 1 THEN parse_64bit_float(stm)
    ELSE IF opcode = 2 THEN parse_utf8_string(stm)
    ELSE IF opcode = 5 THEN parse_binary(stm)
    ELSE IF opcode = 8 THEN parse_bool(stm)
    ELSE IF opcode \in {9, 17} THEN parse_utc_datetime(stm)
    ELSE IF opcode = 16 THEN parse_int(stm, 4)
    ELSE IF opcode = 18 THEN parse_int(stm, 8)
    ELSE Parsed(stm, PyNone)

\* codec_util.DocumentFrame.__init__(key, fpos, parent, length, is_array,
\* ext_data), its parameters in the order of the signature.
DocumentFrame(key, fpos, parent, length, is_array, ext_data) ==
    [key |-> key, fpos |-> fpos, offset |-> fpos, parent |-> parent,
     length |-> length, is_array |-> is_array, ext_data |-> ext_data]

\* The markers of DecodeEvents.
NESTED_DOCUMENT == [t |-> "NESTED_DOCUMENT"]
NESTED_ARRAY == [t |-> "NESTED_ARRAY"]
END_DOCUMENT == [t |-> "END_DOCUMENT"]
SKIP_KEY == [t |-> "SKIP_KEY"]

\* ---------------------------------------------------- BSONEncoder.dump

\* The bytes already in the sink when dump is called.
InitialSinks == {Stream([i \in 1..p |-> 255], p) : p \in 0..MaxStart}

EncInit ==
    /\ enc_obj \in RootDocuments \cup NonDocumentRoots
    /\ enc_stm \in InitialSinks
    /\ enc_stack = <<>>
    /\ enc_pc = "start"
    /\ enc_key = StrKey(<<>>)
    /\ enc_err = NoError
    /\ enc_closed = <<>>

\* The top frame, and the stack with the top frame's iterator advanced.
EncTop == enc_stack[Len(enc_stack)]
EncAdvanced ==
    [enc_stack EXCEPT ![Len(enc_stack)].object_iterator = Tail(@)]

\* dump's except clauses: the error that leaves dump when the body raised
\* exc for the pair keyed key.  Both clauses end in update_with_stack.
DumpError(stk, key) == update_with_stack(stk, key)

\* dump up to the first pair: the root check, the initial frame, the
\* placeholder length, and the generator's stack holding that frame.
Dump ==
    /\ enc_pc = "start"
    /\ IF enc_obj.t # "dict"
       THEN /\ enc_pc' = "raised"
            \* BSONEncodeError('Root object must be a dict!') lacks the
            \* 'msg' argument of BSONEncodeError.__init__(key, msg).
            /\ enc_err' = Error("TypeError", <<>>)
            /\ UNCHANGED <<enc_stm, enc_stack>>
       ELSE /\ enc_stack' = <<EncoderFrame(StrKey(<<>>), enc_stm.pos, 0,
                                           ItemsOf(enc_obj))>>
            /\ enc_stm' = StmWrite(enc_stm, LittleEndian32(0))
            /\ enc_pc' = "running"
            /\ UNCHANGED enc_err
    /\ UNCHANGED <<enc_obj, enc_key, enc_closed>>
    /\ UNCHANGED dec_vars
    /\ UNCHANGED two_vars

\* One pair whose value is a dict or a list: write_document / write_array
\* and the push of the new frame.
EncodeContainer(tag) ==
    /\ EncTop.object_iterator # <<>>
    /\ LET key == Head(EncTop.object_iterator)[1]
           val == Head(EncTop.object_iterator)[2]
           head == WriteContainerHead(key, val, enc_stm)
       IN  /\ val.t = tag
           /\ IF head.exc # "none"
              THEN /\ enc_stm' = head.stm
                   /\ enc_stack' = EncAdvanced
                   /\ enc_err' = DumpError(EncAdvanced, key)
                   /\ enc_pc' = "raised"
              ELSE /\ enc_stm' = StmWrite(head.stm, LittleEndian32(0))
                   /\ enc_stack' =
                        Append(EncAdvanced,
                               EncoderFrame(key, head.stm.pos, Len(enc_stack),
                                            ItemsOf(val)))
                   /\ UNCHANGED <<enc_err, enc_pc>>
           /\ enc_key' = key
    /\ UNCHANGED <<enc_obj, enc_closed>>

\* isinstance(val, dict): write_document.
EncodeNestedDocument ==
    /\ enc_pc = "running"
    /\ enc_stack # <<>>
    /\ EncodeContainer("dict")
    /\ UNCHANGED dec_vars
    /\ UNCHANGED two_vars

\* isinstance(val, (list, tuple)): write_array.
EncodeNestedArray ==
    /\ enc_pc = "running"
    /\ enc_stack # <<>>
    /\ EncodeContainer("list")
    /\ UNCHANGED dec_vars
    /\ UNCHANGED two_vars

\* One pair whose value is neither a dict nor a list: write_value.
EncodeValue ==
    /\ enc_pc = "running"
    /\ enc_stack # <<>>
    /\ EncTop.object_iterator # <<>>
    /\ LET key == Head(EncTop.object_iterator)[1]
           val == Head(EncTop.object_iterator)[2]
           res == write_value(key, val, enc_stm)
       IN  /\ ~IsContainer(val)
           /\ enc_stm' = res.stm
           /\ enc_stack' = EncAdvanced
           /\ IF res.exc # "none"
              THEN /\ enc_err' = DumpError(EncAdvanced, key)
                   /\ enc_pc' = "raised"
              ELSE UNCHANGED <<enc_err, enc_pc>>
           /\ enc_key' = key
    /\ UNCHANGED <<enc_obj, enc_closed>>
    /\ UNCHANGED dec_vars
    /\ UNCHANGED two_vars

\* A variant of the close that writes the terminator and the length and
\* leaves the frame on the stack.
EncodeCloseFrameWithoutPop ==
    /\ enc_pc = "running"
    /\ enc_stack # <<>>
    /\ EncTop.object_iterator = <<>>
    /\ enc_stm' = write_length_for_frame(enc_stm, EncTop)
    /\ enc_closed' = Append(enc_closed,
                            [key |-> EncTop.key, fpos |-> EncTop.starting_fpos,
                             depth |-> Len(enc_stack), term |-> enc_stm.pos])
    /\ UNCHANGED <<enc_obj, enc_stack, enc_pc, enc_key, enc_err>>
    /\ UNCHANGED dec_vars
    /\ UNCHANGED two_vars

\* The top frame's iterator is exhausted: pop it and close it; with the
\* stack empty the generator ends and dump returns.
EncodeCloseFrame ==
    /\ enc_pc = "running"
    /\ enc_stack # <<>>
    /\ EncTop.object_iterator = <<>>
    /\ enc_stack' = SubSeq(enc_stack, 1, Len(enc_stack) - 1)
    /\ enc_stm' = write_length_for_frame(enc_stm, EncTop)
    /\ enc_closed' = Append(enc_closed,
                            [key |-> EncTop.key, fpos |-> EncTop.starting_fpos,
                             depth |-> Len(enc_stack), term |-> enc_stm.pos])
    /\ enc_pc' = IF Len(enc_stack) = 1 THEN "done" ELSE "running"
    /\ UNCHANGED <<enc_obj, enc_key, enc_err>>
    /\ UNCHANGED dec_vars
    /\ UNCHANGED two_vars

\* ------------------------------------------- BSONScanner / BSONDecoder

\* The classes a scanner object is built from: BSONDecoder as it stands
\* (like BSONScanner it defines neither scan_undefined nor decode), and a
\* subclass that supplies scan_undefined (no payload, None) and decode
\* (iterdecode).
ScannerClasses == {"BSONDecoder", "Subclass"}

NoEvent == [frame |-> 0, key |-> StrKey(<<>>), val |-> PyNone]
Event(frame, key, val) == [frame |-> frame, key |-> key, val |-> val]
NoNested == [key |-> StrKey(<<>>), nested_fpos |-> 0, length |-> 0,
             is_array |-> FALSE]

DecIdle ==
    /\ dec_cls = "unset"
    /\ dec_consumer = "unset"
    /\ dec_mapping = <<>>
    /\ dec_calls = <<>>
    /\ dec_frames = <<>>
    /\ dec_stack = <<>>
    /\ dec_pc = "idle"
    /\ dec_at = "none"
    /\ dec_event = NoEvent
    /\ dec_req = PyNone
    /\ dec_nested = NoNested
    /\ dec_err = NoError
    /\ dec_result = PyNone
    /\ dec_trace = <<>>
    /\ dec_skipped = {}

DecTop == dec_stack[Len(dec_stack)]

\* The generator yields event ev with the stack stk: it is recorded.
Yield(ev, at, stm, stk) ==
    /\ dec_event' = ev
    /\ dec_at' = at
    /\ dec_pc' = "suspended"
    /\ dec_trace' = Append(dec_trace,
                           [frame |-> ev.frame, key |-> ev.key, val |-> ev.val,
                            pos |-> stm.pos, depth |-> Len(stk)])

\* An exception exc leaves the generator (and load, which catches nothing).
DecRaise(exc) ==
    /\ dec_pc' = (IF exc = "hang" THEN "hung" ELSE "raised")
    /\ dec_err' = (IF exc = "hang" THEN NoError ELSE Error(exc, <<>>))

\* BSONScanner.__init__: the mapping is built from self.scan_binary and
\* self.scan_undefined; a class without scan_undefined raises
\* AttributeError.
Construct ==
    /\ dec_pc = "idle"
    /\ dec_src \in {"wire", "truncated", "crafted"} \/ enc_pc = "done"
    /\ \E cls \in ScannerClasses, consumer \in {"load", "scan"} :
         /\ dec_cls' = cls
         /\ dec_consumer' = consumer
         /\ IF cls = "BSONDecoder"
            THEN DecRaise("AttributeError") /\ UNCHANGED dec_mapping
            ELSE /\ dec_pc' = "constructed"
                 /\ dec_mapping' = OpcodeMapping
                 /\ UNCHANGED dec_err
    /\ UNCHANGED <<dec_src, dec_wire, dec_calls, dec_stm, dec_frames,
                   dec_stack, dec_at,
                   dec_event, dec_req, dec_nested, dec_result, dec_trace,
                   dec_skipped>>
    /\ UNCHANGED enc_vars
    /\ UNCHANGED two_vars

\* register_opcode(opcode, callback) on the scanner built, before it is
\* given a wire document to decode.
RegisterOpcode ==
    /\ dec_pc = "constructed"
    /\ dec_src = "wire"
    /\ Len(dec_calls) < MaxRegistrations
    /\ \E opcode \in RegisterableOpcodes :
         /\ dec_mapping' = register_opcode(dec_mapping, opcode, "custom")
         /\ dec_calls' = Append(dec_calls,
                                [opcode |-> opcode, raised |-> FALSE,
                                 before |-> dec_mapping,
                                 after |-> dec_mapping'])
    /\ UNCHANGED <<dec_src, dec_wire, dec_cls, dec_consumer, dec_stm,
                   dec_frames, dec_stack, dec_pc, dec_at, dec_event, dec_req,
                   dec_nested, dec_err, dec_result, dec_trace, dec_skipped>>
    /\ UNCHANGED enc_vars
    /\ UNCHANGED two_vars

\* The source a dumped document is read from: the sink's bytes, the cursor
\* at the offset the document was written at.
DumpedSource == Stream(enc_stm.buf, enc_closed[Len(enc_closed)].fpos)

\* iterdecode up to its first yield: the root's length, the root frame, the
\* stack holding it, and the start event of the whole document.
IterStart ==
    /\ dec_pc = "constructed"
    /\ LET stm == IF dec_src = "dumped" THEN DumpedSource ELSE dec_stm
           fpos == stm.pos
           r == parse_int32(stm)
           \* util.DocumentFrame('', fpos, length, False): the third
           \* positional parameter is parent, the fourth is length.
           curr_frame == DocumentFrame(StrKey(<<>>), fpos,
                                       PyInt(BigOf(r.val)), PyBool(FALSE),
                                       FALSE, PyNone)
       IN  /\ dec_stm' = r.stm
           /\ IF r.exc # "none"
              THEN /\ DecRaise(r.exc)
                   /\ UNCHANGED <<dec_frames, dec_stack, dec_at, dec_event,
                                  dec_trace>>
              ELSE /\ dec_frames' = <<curr_frame>>
                   /\ dec_stack' = <<1>>
                   /\ Yield(Event(1, StrKey(<<>>), NESTED_DOCUMENT), "root",
                            r.stm, <<1>>)
                   /\ UNCHANGED dec_err
    /\ UNCHANGED <<dec_src, dec_wire, dec_cls, dec_consumer, dec_mapping,
                   dec_calls, dec_req,
                   dec_nested, dec_result, dec_skipped>>
    /\ UNCHANGED enc_vars
    /\ UNCHANGED two_vars

\* A variant of the resumption that acts on the directive at every yield:
\* on SKIP_KEY it moves the cursor past the next four bytes.
IterResumeActingOnDirective ==
    /\ dec_pc = "resume"
    /\ dec_at \in {"root", "value", "end"}
    /\ dec_pc' = "loop"
    /\ dec_stm' = (IF dec_req = SKIP_KEY THEN StmSeekRel(dec_stm, 4)
                   ELSE dec_stm)
    /\ UNCHANGED <<dec_src, dec_wire, dec_cls, dec_consumer, dec_mapping,
                   dec_calls,
                   dec_frames, dec_stack, dec_at, dec_event, dec_req,
                   dec_nested, dec_err, dec_result, dec_trace, dec_skipped>>
    /\ UNCHANGED enc_vars
    /\ UNCHANGED two_vars

\* The generator is resumed at the root's, a value's or an end event's
\* yield: client_req is assigned and the loop goes on.
IterResume ==
    /\ dec_pc = "resume"
    /\ dec_at \in {"root", "value", "end"}
    /\ dec_pc' = "loop"
    /\ UNCHANGED <<dec_src, dec_wire, dec_cls, dec_consumer, dec_mapping,
                   dec_calls, dec_stm,
                   dec_frames, dec_stack, dec_at, dec_event, dec_req,
                   dec_nested, dec_err, dec_result, dec_trace, dec_skipped>>
    /\ UNCHANGED enc_vars
    /\ UNCHANGED two_vars

\* A variant of the skip that leaves the cursor where it is, after the
\* length field of the container.
skip_without_seek(stm, length) == stm

\* Resumed at a nested start with SKIP_KEY: stm.seek(length, 1) from the
\* position after the length field; no frame is pushed.
skip_seek(stm, length) == StmSeekRel(stm, length)

IterSkip ==
    /\ dec_pc = "resume"
    /\ dec_at = "nested"
    /\ dec_req = SKIP_KEY
    /\ dec_stm' = skip_seek(dec_stm, dec_nested.length)
    /\ dec_skipped' = dec_skipped \cup {Len(dec_trace)}
    /\ dec_pc' = "loop"
    /\ UNCHANGED <<dec_src, dec_wire, dec_cls, dec_consumer, dec_mapping,
                   dec_calls, dec_frames,
                   dec_stack, dec_at, dec_event, dec_req, dec_nested, dec_err,
                   dec_result, dec_trace>>
    /\ UNCHANGED enc_vars
    /\ UNCHANGED two_vars

\* Resumed at a nested start with anything else: the new frame is built by
\* util.DocumentFrame(key, nested_fpos, length, is_array, parent=frame),
\* which gives parent twice (third positional parameter and keyword):
\* TypeError, before anything is pushed.
IterPush ==
    /\ dec_pc = "resume"
    /\ dec_at = "nested"
    /\ dec_req # SKIP_KEY
    /\ DecRaise("TypeError")
    /\ UNCHANGED <<dec_src, dec_wire, dec_cls, dec_consumer, dec_mapping,
                   dec_calls, dec_stm,
                   dec_frames, dec_stack, dec_at, dec_event, dec_req,
                   dec_nested, dec_result, dec_trace, dec_skipped>>
    /\ UNCHANGED enc_vars
    /\ UNCHANGED two_vars

\* while current_stack: the stack is empty, the generator returns.
IterReturn ==
    /\ dec_pc = "loop"
    /\ dec_stack = <<>>
    /\ dec_pc' = "returned"
    /\ UNCHANGED <<dec_src, dec_wire, dec_cls, dec_consumer, dec_mapping,
                   dec_calls, dec_stm,
                   dec_frames, dec_stack, dec_at, dec_event, dec_req,
                   dec_nested, dec_err, dec_result, dec_trace, dec_skipped>>
    /\ UNCHANGED enc_vars
    /\ UNCHANGED two_vars

\* The key carried by the END_DOCUMENT event of frame f.
end_document_key(f) == f.key

\* One pass of the loop body: the opcode; 0x00 pops the frame and yields
\* its end; 0x03 / 0x04 read the key and the length and yield the start;
\* any other opcode reads the key, calls process_opcode and yields the
\* value.  A failing read or callback raises; parse_ename may never return.
IterElement ==
    /\ dec_pc = "loop"
    /\ dec_stack # <<>>
    /\ LET frame == DecTop
           op == parse_byte(dec_stm)
           k == parse_ename(op.stm)
           len == parse_int32(k.stm)
           v == process_opcode(dec_mapping, op.val, k.stm)
           popped == SubSeq(dec_stack, 1, Len(dec_stack) - 1)
       IN  IF op.exc # "none"
           THEN /\ dec_stm' = op.stm
                /\ DecRaise(op.exc)
                /\ UNCHANGED <<dec_stack, dec_at, dec_event, dec_nested,
                               dec_trace>>
           ELSE IF op.val = 0
           THEN /\ dec_stm' = op.stm
                /\ dec_stack' = popped
                /\ Yield(Event(frame, end_document_key(dec_frames[frame]),
                               END_DOCUMENT),
                         "end", op.stm, popped)
                /\ UNCHANGED <<dec_nested, dec_err>>
           ELSE IF k.exc # "none"
           THEN /\ dec_stm' = k.stm
                /\ DecRaise(k.exc)
                /\ UNCHANGED <<dec_stack, dec_at, dec_event, dec_nested,
                               dec_trace>>
           ELSE IF op.val \in {3, 4}
           THEN /\ dec_stm' = len.stm
                /\ IF len.exc # "none"
                   THEN /\ DecRaise(len.exc)
                        /\ UNCHANGED <<dec_at, dec_event, dec_nested,
                                       dec_trace>>
                   ELSE /\ dec_nested' = [key |-> k.val,
                                          nested_fpos |-> k.stm.pos,
                                          length |-> len.val,
                                          is_array |-> (op.val = 4)]
                        /\ Yield(Event(frame, k.val,
                                       IF op.val = 4 THEN NESTED_ARRAY
                                       ELSE NESTED_DOCUMENT),
                                 "nested", len.stm, dec_stack)
                        /\ UNCHANGED dec_err
                /\ UNCHANGED dec_stack
           ELSE /\ dec_stm' = v.stm
                /\ IF v.exc # "none"
                   THEN /\ DecRaise(v.exc)
                        /\ UNCHANGED <<dec_at, dec_event, dec_trace>>
                   ELSE /\ Yield(Event(frame, k.val, v.val), "value", v.stm,
                                 dec_stack)
                        /\ UNCHANGED dec_err
                /\ UNCHANGED <<dec_stack, dec_nested>>
    /\ UNCHANGED <<dec_src, dec_wire, dec_cls, dec_consumer, dec_mapping,
                   dec_calls, dec_frames,
                   dec_req, dec_result, dec_skipped>>
    /\ UNCHANGED enc_vars
    /\ UNCHANGED two_vars

\* A consumer other than load: it answers the event with None (next) or
\* SKIP_KEY (send).
ScanConsume ==
    /\ dec_pc = "suspended"
    /\ dec_consumer = "scan"
    /\ dec_req' \in {PyNone, SKIP_KEY}
    /\ dec_pc' = "resume"
    /\ UNCHANGED <<dec_src, dec_wire, dec_cls, dec_consumer, dec_mapping,
                   dec_calls, dec_stm,
                   dec_frames, dec_stack, dec_at, dec_event, dec_nested,
                   dec_err, dec_result, dec_trace, dec_skipped>>
    /\ UNCHANGED enc_vars
    /\ UNCHANGED two_vars

\* d[key] = val on a dict given as its pairs in insertion order.
DictSet(items, key, val) ==
    IF \E i \in 1..Len(items) : items[i][1] = key
    THEN [i \in 1..Len(items) |->
            IF items[i][1] = key THEN <<key, val>> ELSE items[i]]
    ELSE Append(items, <<key, val>>)

\* frame.ext_data[key] = val, on the ext_data ext of the event's frame:
\* None supports no item assignment, a list takes no str index and a dict
\* no bytearray key (all TypeError).
ext_data_set(ext, key, val) ==
    IF ext.t = "dict" /\ IsStrKey(key)
    THEN [exc |-> "none", ext |-> PyDict(DictSet(ext.items, key, val))]
    ELSE [exc |-> "TypeError", ext |-> ext]

\* The body of load's for loop for one event, then the next() that resumes
\* the generator.
LoadConsume ==
    /\ dec_pc = "suspended"
    /\ dec_consumer = "load"
    /\ LET f == dec_event.frame
           val == dec_event.val
           set == ext_data_set(dec_frames[f].ext_data, dec_event.key, val)
       IN  IF val = NESTED_DOCUMENT
           THEN /\ dec_frames' = [dec_frames EXCEPT ![f].ext_data = PyDict(<<>>)]
                /\ dec_pc' = "resume"
                /\ UNCHANGED dec_err
           ELSE IF val = NESTED_ARRAY
           THEN /\ dec_frames' = [dec_frames EXCEPT ![f].ext_data = PyList(<<>>)]
                /\ dec_pc' = "resume"
                /\ UNCHANGED dec_err
           ELSE IF val = END_DOCUMENT
           THEN /\ dec_pc' = "resume"
                /\ UNCHANGED <<dec_frames, dec_err>>
           ELSE IF set.exc # "none"
           THEN /\ DecRaise(set.exc)
                /\ UNCHANGED dec_frames
           ELSE /\ dec_frames' = [dec_frames EXCEPT ![f].ext_data = set.ext]
                /\ dec_pc' = "resume"
                /\ UNCHANGED dec_err
    /\ dec_req' = PyNone
    /\ UNCHANGED <<dec_src, dec_wire, dec_cls, dec_consumer, dec_mapping,
                   dec_calls, dec_stm,
                   dec_stack, dec_at, dec_event, dec_nested, dec_result,
                   dec_trace, dec_skipped>>
    /\ UNCHANGED enc_vars
    /\ UNCHANGED two_vars

\* load after the loop: frame is the frame of the last event; its ext_data
\* is returned.
LoadReturn ==
    /\ dec_pc = "returned"
    /\ dec_consumer = "load"
    /\ dec_result' = dec_frames[dec_event.frame].ext_data
    /\ dec_pc' = "done"
    /\ UNCHANGED <<dec_src, dec_wire, dec_cls, dec_consumer, dec_mapping,
                   dec_calls, dec_stm,
                   dec_frames, dec_stack, dec_at, dec_event, dec_req,
                   dec_nested, dec_err, dec_trace, dec_skipped>>
    /\ UNCHANGED enc_vars
    /\ UNCHANGED two_vars

vars == <<enc_vars, dec_vars, two_vars>>

\* A value is dumped, and the bytes dumped are then decoded.
DumpInit ==
    /\ EncInit
    /\ dec_src = "dumped"
    /\ dec_wire = <<>>
    /\ dec_stm = Stream(<<>>, 0)
    /\ DecIdle

\* A wire document is decoded; nothing is dumped.
WireInit ==
    /\ enc_obj = PyNone
    /\ enc_stm = Stream(<<>>, 0)
    /\ enc_stack = <<>>
    /\ enc_pc = "unused"
    /\ enc_key = StrKey(<<>>)
    /\ enc_err = NoError
    /\ enc_closed = <<>>
    /\ dec_src = "wire"
    /\ dec_wire \in WireDocuments
    /\ dec_stm = Stream(WireFrame(dec_wire), 0)
    /\ DecIdle

\* The first n bytes of a wire document are decoded, for every n short of
\* the whole document.
TruncatedInit ==
    /\ enc_obj = PyNone
    /\ enc_stm = Stream(<<>>, 0)
    /\ enc_stack = <<>>
    /\ enc_pc = "unused"
    /\ enc_key = StrKey(<<>>)
    /\ enc_err = NoError
    /\ enc_closed = <<>>
    /\ dec_src = "truncated"
    /\ dec_wire \in WireTruncatedDocuments
    /\ \E n \in 0..(Len(WireFrame(dec_wire)) - 1) :
         dec_stm = Stream(SubSeq(WireFrame(dec_wire), 1, n), 0)
    /\ DecIdle

\* A source crafted byte by byte is decoded: a document with the root
\* length field drawn from RootLengths.
CraftedInit ==
    /\ enc_obj = PyNone
    /\ enc_stm = Stream(<<>>, 0)
    /\ enc_stack = <<>>
    /\ enc_pc = "unused"
    /\ enc_key = StrKey(<<>>)
    /\ enc_err = NoError
    /\ enc_closed = <<>>
    /\ dec_src = "crafted"
    /\ dec_wire \in CraftedDocuments
    /\ \E n \in RootLengths(dec_wire) :
         dec_stm = Stream(PackSigned(BigOf(n), 4)
                            \o SubSeq(WireFrame(dec_wire), 5,
                                      Len(WireFrame(dec_wire))), 0)
    /\ DecIdle

Init ==
    /\ DumpInit \/ WireInit \/ TruncatedInit \/ CraftedInit
    /\ two_running = 0
    /\ two_parked = <<>>

Next ==
    \/ Dump
    \/ EncodeNestedDocument
    \/ EncodeNestedArray
    \/ EncodeValue
    \/ EncodeCloseFrame
    \/ Construct
    \/ RegisterOpcode
    \/ IterStart
    \/ IterResume
    \/ IterSkip
    \/ IterPush
    \/ IterReturn
    \/ IterElement
    \/ ScanConsume
    \/ LoadConsume
    \/ LoadReturn

Spec == Init /\ [][Next]_vars

\* ------------------------------------------ two traversals on one object

\* The locals of the traversal that runs: those of dump and of
\* _encode_generator (the sink included) and those of iterdecode and of
\* its consumer (the source included).  The scanner's class, its
\* _opcode_mapping and the calls made on it belong to the object.
Locals ==
    [enc_obj |-> enc_obj, enc_stm |-> enc_stm, enc_stack |-> enc_stack,
     enc_pc |-> enc_pc, enc_key |-> enc_key, enc_err |-> enc_err,
     enc_closed |-> enc_closed,
     dec_src |-> dec_src, dec_wire |-> dec_wire,
     dec_consumer |-> dec_consumer, dec_stm |-> dec_stm,
     dec_frames |-> dec_frames, dec_stack |-> dec_stack, dec_pc |-> dec_pc,
     dec_at |-> dec_at, dec_event |-> dec_event, dec_req |-> dec_req,
     dec_nested |-> dec_nested, dec_err |-> dec_err,
     dec_result |-> dec_result, dec_trace |-> dec_trace,
     dec_skipped |-> dec_skipped]

\* The locals a traversal starts with: a dump of {'a': 123}, of
\* {'a': {'a': None}, 'b.c': [None]} or of {'a': None, 'b.c': <unsupported>}
\* into an empty sink of its own, or an iterdecode by a consumer other than
\* load, with a cursor of its own at offset 0, over the bytes of
\* {'y': 1, 't': None, 'z': 1} or of {'v': [1], 'z': 1}.
TraversalStarts ==
    LET idle == [enc_obj |-> PyNone, enc_stm |-> Stream(<<>>, 0),
                 enc_stack |-> <<>>, enc_pc |-> "unused",
                 enc_key |-> StrKey(<<>>), enc_err |-> NoError,
                 enc_closed |-> <<>>,
                 dec_src |-> "dumped", dec_wire |-> <<>>,
                 dec_consumer |-> "unset", dec_stm |-> Stream(<<>>, 0),
                 dec_frames |-> <<>>, dec_stack |-> <<>>, dec_pc |-> "idle",
                 dec_at |-> "none", dec_event |-> NoEvent,
                 dec_req |-> PyNone, dec_nested |-> NoNested,
                 dec_err |-> NoError, dec_result |-> PyNone,
                 dec_trace |-> <<>>, dec_skipped |-> {}]
        objects == {DictOf(<<PyInt(BigOf(123))>>),
                    DictOf(<<DictOf(<<PyNone>>), PyList(<<PyNone>>)>>),
                    DictOf(<<PyNone, Unsupported>>)}
        wires == {<<WireInt32(<<121>>), WireScalar(10, <<116>>, <<>>),
                    WireInt32(<<122>>)>>,
                  <<WireContainer(4, <<118>>, <<WireInt32(<<48>>)>>),
                    WireInt32(<<122>>)>>}
    IN  {[idle EXCEPT !.enc_obj = obj, !.enc_pc = "start"] : obj \in objects}
          \cup {[idle EXCEPT !.dec_src = "wire", !.dec_wire = wire,
                             !.dec_consumer = "scan",
                             !.dec_stm = Stream(WireFrame(wire), 0),
                             !.dec_pc = "constructed"] : wire \in wires}

\* One scanner (of a subclass that can be constructed) and one encoder
\* have been built; two traversals have been set up on them, none has
\* taken a step.
TwoInit ==
    \E first \in TraversalStarts, second \in TraversalStarts :
        /\ enc_obj = first.enc_obj
        /\ enc_stm = first.enc_stm
        /\ enc_stack = first.enc_stack
        /\ enc_pc = first.enc_pc
        /\ enc_key = first.enc_key
        /\ enc_err = first.enc_err
        /\ enc_closed = first.enc_closed
        /\ dec_src = first.dec_src
        /\ dec_wire = first.dec_wire
        /\ dec_consumer = first.dec_consumer
        /\ dec_stm = first.dec_stm
        /\ dec_frames = first.dec_frames
        /\ dec_stack = first.dec_stack
        /\ dec_pc = first.dec_pc
        /\ dec_at = first.dec_at
        /\ dec_event = first.dec_event
        /\ dec_req = first.dec_req
        /\ dec_nested = first.dec_nested
        /\ dec_err = first.dec_err
        /\ dec_result = first.dec_result
        /\ dec_trace = first.dec_trace
        /\ dec_skipped = first.dec_skipped
        /\ dec_cls = "Subclass"
        /\ dec_mapping = OpcodeMapping
        /\ dec_calls = <<>>
        /\ two_running = 1
        /\ two_parked = second

\* A variant of the switch in which the two traversals have one sink and
\* one source between them: the cursor and the bytes stay as the traversal
\* that ran left them.
SwitchSharingStream ==
    /\ two_running \in {1, 2}
    /\ dec_pc \in {"idle", "constructed", "suspended", "returned", "raised"}
    /\ two_running' = 3 - two_running
    /\ two_parked' = Locals
    /\ enc_obj' = two_parked.enc_obj
    /\ enc_stack' = two_parked.enc_stack
    /\ enc_pc' = two_parked.enc_pc
    /\ enc_key' = two_parked.enc_key
    /\ enc_err' = two_parked.enc_err
    /\ enc_closed' = two_parked.enc_closed
    /\ dec_src' = two_parked.dec_src
    /\ dec_wire' = two_parked.dec_wire
    /\ dec_consumer' = two_parked.dec_consumer
    /\ dec_frames' = two_parked.dec_frames
    /\ dec_stack' = two_parked.dec_stack
    /\ dec_pc' = two_parked.dec_pc
    /\ dec_at' = two_parked.dec_at
    /\ dec_event' = two_parked.dec_event
    /\ dec_req' = two_parked.dec_req
    /\ dec_nested' = two_parked.dec_nested
    /\ dec_err' = two_parked.dec_err
    /\ dec_result' = two_parked.dec_result
    /\ dec_trace' = two_parked.dec_trace
    /\ dec_skipped' = two_parked.dec_skipped
    /\ UNCHANGED <<enc_stm, dec_stm>>
    /\ UNCHANGED <<dec_cls, dec_mapping, dec_calls>>

\* The traversal that runs stands between two steps (dump between two
\* pairs, iterdecode at a yield, not started, or ended) and the other one
\* goes on: every local of iterdecode (stm, current_stack, the frames,
\* client_req, ...) and of dump and _encode_generator belongs to the call,
\* so each traversal finds its own as it left them; only the object's
\* attributes are the same for both.
Switch ==
    /\ two_running \in {1, 2}
    /\ dec_pc \in {"idle", "constructed", "suspended", "returned", "raised"}
    /\ two_running' = 3 - two_running
    /\ two_parked' = Locals
    /\ enc_obj' = two_parked.enc_obj
    /\ enc_stm' = two_parked.enc_stm
    /\ enc_stack' = two_parked.enc_stack
    /\ enc_pc' = two_parked.enc_pc
    /\ enc_key' = two_parked.enc_key
    /\ enc_err' = two_parked.enc_err
    /\ enc_closed' = two_parked.enc_closed
    /\ dec_src' = two_parked.dec_src
    /\ dec_wire' = two_parked.dec_wire
    /\ dec_consumer' = two_parked.dec_consumer
    /\ dec_stm' = two_parked.dec_stm
    /\ dec_frames' = two_parked.dec_frames
    /\ dec_stack' = two_parked.dec_stack
    /\ dec_pc' = two_parked.dec_pc
    /\ dec_at' = two_parked.dec_at
    /\ dec_event' = two_parked.dec_event
    /\ dec_req' = two_parked.dec_req
    /\ dec_nested' = two_parked.dec_nested
    /\ dec_err' = two_parked.dec_err
    /\ dec_result' = two_parked.dec_result
    /\ dec_trace' = two_parked.dec_trace
    /\ dec_skipped' = two_parked.dec_skipped
    /\ UNCHANGED <<dec_cls, dec_mapping, dec_calls>>

TwoNext ==
    \/ Dump
    \/ EncodeNestedDocument
    \/ EncodeNestedArray
    \/ EncodeValue
    \/ EncodeCloseFrame
    \/ IterStart
    \/ IterResume
    \/ IterSkip
    \/ IterPush
    \/ IterReturn
    \/ IterElement
    \/ ScanConsume
    \/ Switch

TwoSpec == TwoInit /\ [][TwoNext]_vars

\* ------------------------------------------------------------ properties

\* The traversal or the load has ended: returned, raised, or never returns.
DecStopped == dec_pc \in {"returned", "done", "raised", "hung"}

\* The decode errors of errors.py.
DecodeErrors == {"BSONDecodeError", "InvalidBSONOpcode"}

\* The frame closed last: the root, once dump has returned.
ClosedRoot == enc_closed[Len(enc_closed)]

\* C1: once a frame written by dump has been closed (the root or a nested
\* document or array at any depth, the sink starting at any position), the
\* 4-byte little-endian length field at the frame's start holds the number
\* of bytes from the first byte of that field up to and including the
\* frame's terminating zero byte.
C1_LengthFieldCorrect ==
    \A i \in 1..Len(enc_closed) :
        LET c == enc_closed[i]
        IN  /\ c.term + 1 <= Len(enc_stm.buf)
            /\ enc_stm.buf[c.term + 1] = 0
            /\ SignedOf32(SubSeq(enc_stm.buf, c.fpos + 1, c.fpos + 4))
                 = c.term + 1 - c.fpos

\* C1 happens: dump has returned to a sink that started past offset 0, and
\* has closed a frame nested three deep that holds an element.
C1_Witness ==
    /\ enc_pc = "done"
    /\ ClosedRoot.fpos > 0
    /\ \E i \in 1..Len(enc_closed) :
         /\ enc_closed[i].depth >= 3
         /\ enc_closed[i].term > enc_closed[i].fpos + 4

\* C2: for every value tree v with a document root built from the type
\* model, loads(dumps(v)) returns a value equal to v: once loading the
\* bytes dumped for v has ended, it has returned, and returned v.
C2_RoundTrip ==
    (dec_src = "dumped" /\ dec_consumer = "load" /\ ClosedRoot.fpos = 0
       /\ dec_pc \in {"done", "raised", "hung"})
    => (dec_pc = "done" /\ dec_result = enc_obj)

\* C3: when the consumer has answered the start event of a nested document
\* or array with SKIP_KEY, the cursor is left at the byte that follows the
\* skipped frame's terminating zero byte.
C3_SkipLandsAfterSubtree ==
    (dec_src = "dumped" /\ dec_pc = "loop" /\ Len(dec_trace) \in dec_skipped)
    => \A i \in 1..Len(enc_closed) :
           enc_closed[i].fpos = dec_nested.nested_fpos
           => dec_stm.pos = enc_closed[i].term + 1

\* A value tree, a dict or a list, that holds a dict or a list.
HasNested(v) ==
    /\ IsContainer(v)
    /\ \E i \in 1..Len(IF v.t = "dict" THEN v.items ELSE v.elems) :
         IsContainer(IF v.t = "dict" THEN v.items[i][2] ELSE v.elems[i])

\* C4: load attaches every scalar and every nested container under its key
\* in the container of the enclosing frame: for a well-formed input with
\* nested documents or arrays, read by a scanner that could be constructed,
\* load returns, and returns the encoded tree.
C4_LoadBuildsNestedTree ==
    (dec_src = "dumped" /\ dec_consumer = "load" /\ dec_cls = "Subclass"
       /\ HasNested(enc_obj) /\ dec_pc \in {"done", "raised", "hung"})
    => (dec_pc = "done" /\ dec_result = enc_obj)

\* The wire document holds an array in which the key of some n-th element
\* is not the decimal string of n.
HasDeviatingArrayKey(elems) ==
    \E i \in 1..Len(elems) :
        /\ elems[i].tag = 4
        /\ \E n \in 1..Len(elems[i].elems) :
             elems[i].elems[n].key # DecimalString(n - 1)

\* C5: decoding an array frame in which the key of some n-th element is not
\* the decimal string of n fails with a decode error.
C5_ArrayKeyEnforced ==
    (dec_src = "wire" /\ dec_consumer = "load" /\ dec_cls = "Subclass"
       /\ HasDeviatingArrayKey(dec_wire)
       /\ dec_pc \in {"done", "raised", "hung"})
    => (dec_pc = "raised" /\ dec_err.type \in DecodeErrors)

\* C6: in a traversal of a well-formed document the stack becomes empty
\* exactly when the root frame's terminating zero byte has been consumed:
\* with the stack empty again, the cursor is one byte past that terminator.
C6_StackEmptiesAtRootTerminator ==
    (dec_src = "dumped" /\ dec_trace # <<>> /\ dec_stack = <<>>)
    => dec_stm.pos = ClosedRoot.term + 1

\* C7: every start event that was not skipped is matched by a later
\* END_DOCUMENT event with the same key: a traversal of a well-formed
\* document in which nothing is skipped does not end with a start event
\* that has no END_DOCUMENT event after it.
C7_StartsMatchedByEnds ==
    (dec_src = "dumped" /\ dec_cls = "Subclass" /\ dec_skipped = {}
       /\ DecStopped)
    => \A i \in 1..Len(dec_trace) :
           dec_trace[i].val \in {NESTED_DOCUMENT, NESTED_ARRAY}
           => \E j \in (i + 1)..Len(dec_trace) :
                  /\ dec_trace[j].val = END_DOCUMENT
                  /\ dec_trace[j].key = dec_trace[i].key

\* C8: dump of a root value that is not a document fails with
\* BSONEncodeError.
C8_NonDocumentRootEncodeError ==
    (enc_pc \in {"done", "raised"} /\ enc_obj.t # "dict")
    => (enc_pc = "raised" /\ enc_err.type = "BSONEncodeError")

\* The dotted path of the keys of the frames of stk, root first, followed
\* by key.
KeyPath(stk, key) ==
    JoinDots([i \in 1..Len(stk) |-> EscapeDots(FormatKey(stk[i].key))])
      \o <<46>> \o FormatKey(key)

\* C9: when dump fails on a pair inside a document root, at any position in
\* the tree, it fails with BSONEncodeError, and the error carries the
\* dotted path of the keys of all frames on the stack followed by the key
\* of the offending pair.
C9_ErrorCarriesKeyPath ==
    (enc_pc = "raised" /\ enc_obj.t = "dict")
    => /\ enc_err.type = "BSONEncodeError"
       /\ enc_err.key = KeyPath(enc_stack, enc_key)

\* The first element of the wire document whose tag has no callback in the
\* scanner's mapping, or 0.
FirstUnregistered(elems) ==
    IF \E i \in 1..Len(elems) : elems[i].tag \notin DOMAIN dec_mapping \cup {3, 4}
    THEN CHOOSE i \in 1..Len(elems) :
           /\ elems[i].tag \notin DOMAIN dec_mapping \cup {3, 4}
           /\ \A j \in 1..(i - 1) : elems[j].tag \in DOMAIN dec_mapping \cup {3, 4}
    ELSE 0

\* C10: decoding an element whose tag has no registered handler fails with
\* a decode error; the element is not skipped and no event follows the
\* failure: the traversal ends raised with a decode error, having yielded
\* the root's start and the elements before the unregistered one.
C10_UnregisteredOpcodeDecodeError ==
    (dec_src = "wire" /\ dec_cls = "Subclass"
       /\ FirstUnregistered(dec_wire) # 0 /\ DecStopped)
    => /\ dec_pc = "raised"
       /\ dec_err.type \in DecodeErrors
       /\ Len(dec_trace) = FirstUnregistered(dec_wire)

\* dump was given a document holding exactly one value, of python type t.
DumpsOne(t) ==
    /\ enc_obj.t = "dict"
    /\ Len(enc_obj.items) = 1
    /\ enc_obj.items[1][2].t = t

\* The one value of that document, and the offset at which its element's
\* payload starts in the sink: after the root's length field, the tag and
\* the key with its zero byte.
OneValue == enc_obj.items[1][2]
OnePayloadAt(root_fpos) == root_fpos + 4 + 1 + Len(enc_obj.items[1][1].ks) + 1

\* C12: for every int v of the signed 64-bit range, encoding succeeds; v is
\* written with tag 0x12 and 8 payload bytes when v < -2^31 or v > 2^32-1,
\* with tag 0x10 and 4 payload bytes otherwise; the payload decodes to v.
C12_IntegerWidths ==
    (DumpsOne("int") /\ Packable(OneValue.n, 8) /\ enc_pc \in {"done", "raised"})
    => /\ enc_pc = "done"
       /\ LET wide == \/ BigLess(OneValue.n, BigNeg(BigPow2(31)))
                      \/ BigLess(BigPow2Minus1(32), OneValue.n)
              at == OnePayloadAt(ClosedRoot.fpos)
              width == IF wide THEN 8 ELSE 4
          IN  /\ enc_stm.buf[ClosedRoot.fpos + 5] = (IF wide THEN 18 ELSE 16)
              /\ ClosedRoot.term = at + width
              /\ UnpackSigned(SubSeq(enc_stm.buf, at + 1, at + width))
                   = OneValue.n

\* The pair dump takes next from the generator, when there is one.
NextPairExists ==
    enc_pc = "running" /\ enc_stack # <<>> /\ EncTop.object_iterator # <<>>
NextPair == Head(EncTop.object_iterator)

\* C13: every boolean value, at any position, is written with tag 0x08 and
\* the single payload byte 0x01 (true) or 0x00 (false), never with an
\* integer tag: the step that takes a pair whose value is a bool appends
\* exactly 0x08, the key, 0x00 and that byte to the sink.
C13_BoolBeforeInt ==
    [][(NextPairExists /\ NextPair[2].t = "bool" /\ enc_stack' # enc_stack)
       => /\ enc_pc' = "running"
          /\ enc_stm' = StmWrite(enc_stm,
                                 <<8>> \o FormatKey(NextPair[1]) \o <<0>>
                                   \o <<IF NextPair[2].b THEN 1 ELSE 0>>)]_vars

\* C13 happens: dump has returned for {'a': False} with the element
\* 08 'a' 00 00, and for a document that holds True inside an array.
C13_Witness ==
    /\ enc_pc = "done"
    /\ \/ /\ DumpsOne("bool")
          /\ ~OneValue.b
          /\ SubSeq(enc_stm.buf, ClosedRoot.fpos + 5, ClosedRoot.fpos + 8)
               = <<8, 97, 0, 0>>
       \/ /\ enc_obj = DictOf(<<PyList(<<PyBool(TRUE)>>)>>)
          /\ ClosedRoot.fpos = 0
          /\ SubSeq(enc_stm.buf, 12, 15) = <<8, 48, 0, 1>>

\* The elements read back from the bytes buf of a frame, from the offset pos
\* of its first element up to its terminator: of each element the tag, the
\* key, the offset of its tag, the offset after its last byte, and for tag
\* 0x03 / 0x04 the elements of the nested frame.
RECURSIVE ReadElements(_, _)
ReadElements(buf, pos) ==
    IF buf[pos + 1] = 0 THEN <<>>
    ELSE LET tag == buf[pos + 1]
             nul == CHOOSE i \in (pos + 2)..Len(buf) :
                       /\ buf[i] = 0
                       /\ \A j \in (pos + 2)..(i - 1) : buf[j] # 0
             size == IF tag \in {2, 3, 4}
                     THEN (IF tag = 2 THEN 4 ELSE 0)
                            + SignedOf32(SubSeq(buf, nul + 1, nul + 4))
                     ELSE IF tag = 8 THEN 1
                     ELSE IF tag = 16 THEN 4
                     ELSE IF tag = 18 THEN 8
                     ELSE 0
         IN  <<[tag |-> tag, key |-> SubSeq(buf, pos + 2, nul - 1),
                at |-> pos, end |-> nul + size,
                elems |-> IF tag \in {3, 4} THEN ReadElements(buf, nul + 4)
                          ELSE <<>>]>>
               \o ReadElements(buf, nul + size)

\* The elements of the root frame dump has written.
WrittenElements == ReadElements(enc_stm.buf, ClosedRoot.fpos + 4)

\* In every array among elems, at any depth, the n-th element's key is the
\* decimal string of n.
RECURSIVE ArrayKeysCount(_)
ArrayKeysCount(elems) ==
    \A i \in 1..Len(elems) :
        /\ elems[i].tag = 4
           => \A n \in 1..Len(elems[i].elems) :
                  elems[i].elems[n].key = DecimalString(n - 1)
        /\ ArrayKeysCount(elems[i].elems)

\* The lists of a value tree have as many elements written as they hold.
RECURSIVE ListsComplete(_, _)
ListsComplete(val, elems) ==
    LET items == ItemsOf(val)
    IN  /\ Len(elems) = Len(items)
        /\ \A i \in 1..Len(items) :
               IsContainer(items[i][2])
               => /\ elems[i].tag = (IF items[i][2].t = "list" THEN 4 ELSE 3)
                  /\ ListsComplete(items[i][2], elems[i].elems)

\* C14: in the bytes dump has written, every list is an array frame (tag
\* 0x04) with one element per list element, and the element at index n has
\* the key str(n): 0, 1, 2, ... without gaps, also when the element is a
\* nested document or array.
C14_ArrayKeysAreIndices ==
    enc_pc = "done"
    => /\ ListsComplete(enc_obj, WrittenElements)
       /\ ArrayKeysCount(WrittenElements)

\* C14 happens: dump has returned for a document with a list of three
\* values, a nested document and a nested list among them, and for the
\* list of eleven values whose last key is '10'.
C14_Witness ==
    /\ enc_pc = "done"
    /\ Len(enc_obj.items) = 1
    /\ \/ /\ enc_obj.items[1][2].t = "list"
          /\ Len(enc_obj.items[1][2].elems) = 3
          /\ enc_obj.items[1][2].elems[2].t = "dict"
          /\ enc_obj.items[1][2].elems[3].t = "list"
          /\ WrittenElements[1].elems[3].key = <<50>>
       \/ /\ enc_obj.items[1][2].t = "list"
          /\ Len(enc_obj.items[1][2].elems) = 11
          /\ WrittenElements[1].elems[11].key = <<49, 48>>

\* The load of the bytes dumped has ended.
LoadStopped ==
    dec_src = "dumped" /\ dec_consumer = "load"
      /\ dec_pc \in {"done", "raised", "hung"}

\* The document {value: 123} is dumped into an empty sink as one element of
\* tag 0x10 in a document whose length field and size are both total, and
\* a load of these bytes by a scanner of the classes cls returns the
\* document.
LiteralVector(total, cls) ==
    (enc_obj \in LiteralDocuments /\ enc_pc = "done" /\ ClosedRoot.fpos = 0)
    => /\ Len(WrittenElements) = 1
       /\ WrittenElements[1].tag = 16
       /\ SignedOf32(SubSeq(enc_stm.buf, 1, 4)) = total
       /\ Len(enc_stm.buf) = total
       /\ (LoadStopped /\ dec_cls \in cls)
          => (dec_pc = "done" /\ dec_result = enc_obj)

DeepChain(d, leaf) ==
    DictOf(<<Chain([i \in 1..d |-> "dict"], leaf), PyStr(<<98>>)>>)

\* The value reached from the dict v by taking the first value d times.
RECURSIVE FirstValue(_, _)
FirstValue(v, d) ==
    IF d = 0 THEN v
    ELSE IF v.t = "dict" /\ v.items # <<>> THEN FirstValue(v.items[1][2], d - 1)
    ELSE PyNone

\* C15: for every depth d, a document holding a chain of d nested documents
\* and a top-level sibling key is encoded and then decoded: neither frame
\* stack grows past d + 1, the encoding succeeds when the leaf has an
\* encoding, and the load of the bytes returns a document that has kept
\* the sibling key and the leaf.
C15_DeepNestingRoundTrip ==
    \A d \in 1..MaxDepth, leaf \in Leaves \ {Unsupported} :
        enc_obj = DeepChain(d, leaf)
        => /\ Len(enc_stack) <= d + 1
           /\ Len(dec_stack) <= d + 1
           /\ enc_pc \notin {"raised"}
           /\ (LoadStopped /\ dec_cls = "Subclass")
              => /\ dec_pc = "done"
                 /\ dec_result.t = "dict"
                 /\ Len(dec_result.items) = 2
                 /\ dec_result.items[2] = enc_obj.items[2]
                 /\ FirstValue(dec_result, d + 1) = leaf

\* C17: register_opcode rejects a callback for the tags 0x03, 0x04 and
\* 0x00: such a call fails and leaves the mapping as it was; a call for any
\* other tag succeeds and sets the callback of that tag only.
C17_RegisterRejectsReservedTags ==
    \A i \in 1..Len(dec_calls) :
        LET c == dec_calls[i]
        IN  IF c.opcode \in {0, 3, 4}
            THEN c.raised /\ c.after = c.before
            ELSE /\ ~c.raised
                 /\ c.after = register_opcode(c.before, c.opcode, "custom")

\* The elements written for the value tree val are, frame by frame, its
\* pairs in iteration order: the i-th element has the i-th key, each element
\* starts where the one before it ends, and the elements of a nested
\* container lie inside the bytes of its element.
RECURSIVE WrittenInOrder(_, _)
WrittenInOrder(val, elems) ==
    LET items == ItemsOf(val)
    IN  /\ Len(elems) = Len(items)
        /\ \A i \in 1..Len(items) :
               /\ elems[i].key = FormatKey(items[i][1])
               /\ i > 1 => elems[i].at = elems[i - 1].end
               /\ IsContainer(items[i][2])
                  => /\ WrittenInOrder(items[i][2], elems[i].elems)
                     /\ \A n \in 1..Len(elems[i].elems) :
                            /\ elems[i].at < elems[i].elems[n].at
                            /\ elems[i].elems[n].end < elems[i].end

\* An event of an element of the root frame: a value or a nested start.
IsRootElementEvent(ev) == ev.frame = 1 /\ ev.val # END_DOCUMENT

\* The keys of the events yielded for the elements of the root frame, in
\* the order of the yields (the first event is the start of the root).
RootEventKeys ==
    LET evs == SelectSeq(Tail(dec_trace), IsRootElementEvent)
    IN  [i \in 1..Len(evs) |-> evs[i].key]

\* C18: dump writes the elements of every document in the iteration order
\* of the mapping and those of every array in index order, a nested
\* container between its siblings; and a traversal of these bytes in which
\* nothing is skipped has, when it ends, yielded the events of the root
\* frame's elements in that same order.
C18_InsertionOrderPreserved ==
    enc_pc = "done"
    => /\ WrittenInOrder(enc_obj, WrittenElements)
       /\ (dec_src = "dumped" /\ dec_cls = "Subclass" /\ dec_skipped = {}
             /\ DecStopped)
          => RootEventKeys = [i \in 1..Len(enc_obj.items) |->
                                enc_obj.items[i][1]]

\* The value a wire element of the documents drawn stands for.
WireValue(e) ==
    IF e.tag = 3 THEN PyDict(<<>>)
    ELSE IF e.tag = 4 THEN PyList(<<>>)
    ELSE PyInt(UnpackSigned(e.payload))

\* The pairs of the map in which each key of elems holds the value of the
\* last element with that key.
RECURSIVE LastWriteWins(_)
LastWriteWins(elems) ==
    IF elems = <<>> THEN <<>>
    ELSE LET e == elems[Len(elems)]
         IN  DictSet(LastWriteWins(SubSeq(elems, 1, Len(elems) - 1)),
                     StrKey(e.key), WireValue(e))

\* C19: decoding a document in which a key occurs more than once succeeds,
\* and the map returned holds for that key the value of the last element
\* with that key, for scalar and for container values.
C19_DuplicateKeysLastWins ==
    (dec_src = "wire" /\ dec_wire \in WireDuplicateDocuments
       /\ dec_consumer = "load" /\ dec_cls = "Subclass" /\ dec_calls = <<>>
       /\ dec_pc \in {"done", "raised", "hung"})
    => /\ dec_pc = "done"
       /\ dec_result = PyDict(LastWriteWins(dec_wire))

\* C20: encoding a bytes value writes tag 0x05, the int32 length, the
\* subtype byte 0x00 and the bytes; encoding a UUID writes tag 0x05, the
\* length 16, the subtype byte 0x04 and its 16 bytes; both succeed, and
\* the binary routine of the decoder reads the value back from them.
C20_BinaryAndUuidEncoded ==
    ((DumpsOne("bytes") \/ DumpsOne("UUID")) /\ enc_pc \in {"done", "raised"})
    => /\ enc_pc = "done"
       /\ LET at == OnePayloadAt(ClosedRoot.fpos)
              data == OneValue.data
          IN  /\ enc_stm.buf[ClosedRoot.fpos + 5] = 5
              /\ SubSeq(enc_stm.buf, at + 1, ClosedRoot.term)
                   = LittleEndian32(Len(data))
                       \o <<IF OneValue.t = "UUID" THEN 4 ELSE 0>> \o data
              /\ parse_binary(Stream(enc_stm.buf, at)).val = OneValue

\* C11: decoding a document truncated at any offset terminates, and fails
\* with a decode error instead of returning a value.
C11_TruncatedInputDecodeError ==
    (dec_src = "truncated" /\ dec_cls = "Subclass")
    => /\ dec_pc # "hung"
       /\ dec_pc \in {"returned", "done", "raised"}
          => (dec_pc = "raised" /\ dec_err.type \in DecodeErrors)

\* The text the encoder is to write for a key: a bytes or str key as it is,
\* any other key as str(key).
KeyText(key) == IF "kb" \in DOMAIN key THEN key.kb ELSE FormatKey(key)

\* C21: for every document holding None under one key, whatever the type
\* of the key (str, bytes, int, bool, float, None), dump succeeds, and the
\* element written is the tag 0x0A, the key's text (a str or bytes key as
\* it is, any other key as its str() form in UTF-8) and a zero byte.
C21_KeysStringified ==
    (DumpsOne("NoneType") /\ enc_pc \in {"done", "raised"})
    => /\ enc_pc = "done"
       /\ SubSeq(enc_stm.buf, ClosedRoot.fpos + 1, Len(enc_stm.buf))
            = WireFrame(<<WireScalar(10, KeyText(enc_obj.items[1][1]),
                                     <<>>)>>)

\* The bytes the decoder reads.
SourceBuf == IF dec_src = "dumped" THEN enc_stm.buf ELSE dec_stm.buf

\* The offset one past the last byte of the container whose start event is
\* the i-th of the trace: the cursor at that event is 4 bytes after the
\* offset at which the container's length field begins.
SubtreeEnd(i) ==
    LET at == dec_trace[i].pos - 4
    IN  at + SignedOf32(SubSeq(SourceBuf, at + 1, at + 4))

\* After every skip, each later event was read from bytes after the
\* skipped container, and the first of them has the frame of the start
\* event.
NothingFromSkipped ==
    \A i \in dec_skipped :
        \A j \in (i + 1)..Len(dec_trace) :
            /\ dec_trace[j].pos > SubtreeEnd(i)
            /\ j = i + 1 => dec_trace[j].frame = dec_trace[i].frame

\* C22: the step that answers a nested start event with SKIP_KEY pushes no
\* frame (the stack and the frames are unchanged) and emits no event, and
\* no event after it comes from the bytes of the skipped container: no
\* value, no nested start and no END_DOCUMENT of it; the next event has the
\* frame that was on top of the stack at the start event.
C22_SkipPushesNoFrame ==
    [][/\ dec_skipped' # dec_skipped
          => /\ dec_stack' = dec_stack
             /\ dec_frames' = dec_frames
             /\ dec_trace' = dec_trace
       /\ NothingFromSkipped']_vars

\* C22 happens: a container of a dumped document has been skipped and an
\* event has been emitted after the skip.
C22_Witness ==
    /\ dec_src = "dumped"
    /\ \E i \in dec_skipped : Len(dec_trace) > i

\* The containers of a value tree, and the values of a value tree (the
\* containers and the values they hold, at any depth).
RECURSIVE Containers(_), ContainersIn(_), Values(_), ValuesIn(_)
Containers(v) == IF IsContainer(v) THEN 1 + ContainersIn(ItemsOf(v)) ELSE 0
ContainersIn(pairs) ==
    IF pairs = <<>> THEN 0
    ELSE Containers(Head(pairs)[2]) + ContainersIn(Tail(pairs))
Values(v) == 1 + (IF IsContainer(v) THEN ValuesIn(ItemsOf(v)) ELSE 0)
ValuesIn(pairs) ==
    IF pairs = <<>> THEN 0
    ELSE Values(Head(pairs)[2]) + ValuesIn(Tail(pairs))

\* The work dump has left: two for every value not yet taken from an
\* iterator of the stack, one for every frame still to be closed.
RECURSIVE WorkLeft(_)
WorkLeft(stk) ==
    IF stk = <<>> THEN 0
    ELSE 2 * ValuesIn(Head(stk).object_iterator) + 1 + WorkLeft(Tail(stk))

\* The stack holds a frame while dump runs; the frames closed so far are
\* distinct, none of them is on the stack, and none was closed before a
\* frame written inside it; once dump has returned the stack is empty, the
\* root was closed last and every container of the tree has been closed.
FramesDisciplined ==
    /\ enc_pc = "running" => enc_stack # <<>>
    /\ \A i \in 1..Len(enc_closed) :
           /\ \A j \in (i + 1)..Len(enc_closed) :
                  /\ enc_closed[i].fpos # enc_closed[j].fpos
                  /\ ~(/\ enc_closed[i].fpos < enc_closed[j].fpos
                        /\ enc_closed[j].term < enc_closed[i].term)
           /\ \A k \in 1..Len(enc_stack) :
                  enc_stack[k].starting_fpos # enc_closed[i].fpos
    /\ enc_pc = "done"
       => /\ enc_stack = <<>>
          /\ ClosedRoot.depth = 1
          /\ Len(enc_closed) = Containers(enc_obj)

C24_CloseTouchesOnlyOwnLength ==
    [][enc_closed' # enc_closed
       => LET fpos == EncTop.starting_fpos
              old == enc_stm.buf
              new == enc_stm'.buf
          IN  /\ Len(new) = Len(old) + 1
              /\ new[Len(new)] = 0
              /\ SubSeq(old, fpos + 1, fpos + 4) = <<0, 0, 0, 0>>
              /\ \A i \in 1..Len(old) :
                     i \notin (fpos + 1)..(fpos + 4) => new[i] = old[i]
              /\ enc_stm'.pos = Len(old) + 1
              /\ enc_stm'.pos = Len(new)]_vars

\* C24 happens: a nested frame was closed, bytes were appended after its
\* terminator, and its parent was closed after it.
C24_Witness ==
    /\ Len(enc_closed) >= 2
    /\ enc_closed[1].term + 2 < enc_closed[2].term
    /\ enc_closed[1].fpos > enc_closed[2].fpos

\* C25: every frame on the encoder's stack has as parent the frame directly
\* below it (none for the root, whose key is ''); every frame on the
\* decoder's stack has its key ('' for the root), the offset of its length
\* field, as parent the frame directly below it (None for the root), as
\* length the number read from its length field, and a boolean array flag
\* (false for the root); and the creation of a frame for a nested container
\* does not fail.
C25_FramesRecordTheirFields ==
    /\ \A i \in 1..Len(enc_stack) :
           /\ enc_stack[i].parent = i - 1
           /\ i = 1 => enc_stack[i].key = StrKey(<<>>)
    /\ \A i \in 1..Len(dec_stack) :
           LET f == dec_frames[dec_stack[i]]
           IN  /\ f.offset = f.fpos
               /\ f.parent = (IF i = 1 THEN PyNone ELSE dec_stack[i - 1])
               /\ f.length
                    = PyInt(BigOf(SignedOf32(SubSeq(SourceBuf, f.fpos + 1,
                                                    f.fpos + 4))))
               /\ f.is_array \in BOOLEAN
               /\ i = 1 => f.key = StrKey(<<>>) /\ ~f.is_array
    /\ ~(/\ dec_pc = "raised"
          /\ dec_at = "nested"
          /\ dec_req # SKIP_KEY
          /\ dec_err.type = "TypeError")

\* The offsets of the zero bytes of the source at or after offset p, and
\* the first of them.
ZerosFrom(p) == {z \in p..(Len(SourceBuf) - 1) : SourceBuf[z + 1] = 0}
FirstZeroFrom(p) == CHOOSE z \in ZerosFrom(p) : \A y \in ZerosFrom(p) : z <= y

\* The bytes of a key parse_ename returns: of the str or of the bytearray.
KeyBytes(key) == IF IsStrKey(key) THEN key.ks ELSE key.kb

\* parse_ename started at offset p of the source returns the bytes from p
\* up to the first zero byte at or after p and leaves the cursor one past
\* that zero byte.
EnameScansFrom(p) ==
    LET r == parse_ename(Stream(SourceBuf, p))
        z == FirstZeroFrom(p)
    IN  /\ r.exc = "none"
        /\ KeyBytes(r.val) = SubSeq(SourceBuf, p + 1, z)
        /\ r.stm.pos = z + 1

\* C26: in every state, parse_ename started at the decoder's cursor or one
\* byte after it (a key begins after the tag byte), with a zero byte at or
\* after that offset, returns exactly the bytes up to the first such zero
\* byte and leaves the cursor one past it, wherever the zero byte lies in
\* the chunks of ChunkSize bytes and whatever follows it; and the key of
\* every value or start event emitted is that of the element read.
C26_EnameScansToFirstZero ==
    [][/\ \A p \in {dec_stm.pos, dec_stm.pos + 1} :
              (p <= Len(SourceBuf) /\ ZerosFrom(p) # {}) => EnameScansFrom(p)
       /\ (dec_pc = "loop" /\ dec_at' \in {"value", "nested"}
                           /\ dec_trace' # dec_trace)
          => /\ EnameScansFrom(dec_stm.pos + 1)
             /\ KeyBytes(dec_event'.key)
                  = SubSeq(SourceBuf, dec_stm.pos + 2,
                           FirstZeroFrom(dec_stm.pos + 1))]_vars

\* C26 happens: the events of elements have been emitted whose keys end
\* with the last byte before the end of a chunk, in the last byte of a
\* chunk, and two chunks after the key's first byte.
C26_Witness ==
    /\ dec_src = "crafted"
    /\ dec_pc = "suspended"
    /\ dec_at = "value"
    /\ dec_event.val = PyInt(BigOf(1))
    /\ IsStrKey(dec_event.key)
    /\ Len(dec_event.key.ks) = 2 * ChunkSize
    /\ dec_stm.pos = Len(dec_stm.buf) - 1

\* The decode has ended for its consumer: load has returned or raised, the
\* scan has run to the generator's end or raised, or a read never returns.
ConsumerStopped ==
    \/ dec_pc \in {"done", "raised", "hung"}
    \/ dec_consumer = "scan" /\ dec_pc = "returned"

\* C27: decoding a document whose element key is not valid UTF-8, with the
\* scanner as it is built (no raw-bytes fallback asked for), emits no event
\* that carries the key as raw bytes and ends with a decode error.
C27_InvalidUtf8KeyDecodeError ==
    (/\ dec_src = "crafted"
     /\ dec_wire \in WireBadKeyDocuments
     /\ ~IsUtf8(dec_wire[1].key)
     /\ dec_cls = "Subclass")
    => /\ \A j \in 1..Len(dec_trace) : IsStrKey(dec_trace[j].key)
       /\ ConsumerStopped
          => dec_pc = "raised" /\ dec_err.type \in DecodeErrors

\* In a document of WireStringDocuments the string's length field begins
\* at offset 7 (after the root's length, the tag, the key 's' and its zero
\* byte): the length n read from it, and whether the last of the n bytes
\* after it is missing or is not a zero byte.
StringLength == SignedOf32(SubSeq(dec_stm.buf, 8, 11))
StringUnterminated ==
    \/ StringLength <= 0
    \/ 11 + StringLength > Len(dec_stm.buf)
    \/ dec_stm.buf[11 + StringLength] # 0

\* C28: decoding a document that holds one string element: when the last
\* of the n bytes after the length field is not a zero terminator (also
\* when n <= 0, or when fewer than n bytes remain), no event is emitted for
\* the string and the decode ends with a decode error; otherwise an event
\* emitted for the string finds the cursor exactly n bytes after the
\* length field.
C28_StringTerminatorDecodeError ==
    (/\ dec_src = "crafted"
     /\ dec_wire \in WireStringDocuments
     /\ dec_cls = "Subclass")
    => IF StringUnterminated
       THEN /\ Len(dec_trace) <= 1
            /\ ConsumerStopped
               => dec_pc = "raised" /\ dec_err.type \in DecodeErrors
       ELSE Len(dec_trace) >= 2 => dec_trace[2].pos = 11 + StringLength

\* The number held by the root's length field of the source decoded.
RootLength == SignedOf32(SubSeq(dec_stm.buf, 1, 4))

\* C29: decoding a document whose root length field is not the number of
\* bytes from the first byte of that field to the root's terminating zero
\* byte (too small, too large, zero, negative) ends with a decode error;
\* load returns no value for it.
C29_MalformedLengthDecodeError ==
    (/\ dec_src = "crafted"
     /\ dec_wire \in WireLengthDocuments
     /\ RootLength # Len(dec_stm.buf)
     /\ dec_cls = "Subclass"
     /\ ConsumerStopped)
    => dec_pc = "raised" /\ dec_err.type \in DecodeErrors

\* The bytes the write of the pair (key, val) has put into the sink when it
\* fails: nothing for a value without a write routine (a set, bytes); the
\* tag alone when the key cannot be written; else the tag, the key and its
\* zero byte, and for a UUID the length 16.
FailedWrite(key, val) ==
    LET tag == IF val.t = "dict" THEN 3
               ELSE IF val.t = "list" THEN 4
               ELSE IF val.t = "NoneType" THEN 10
               ELSE IF val.t = "bool" THEN 8
               ELSE IF val.t = "str" THEN 2
               ELSE IF val.t = "UUID" THEN 5
               ELSE IF \/ BigLess(val.n, INT32_LOWERBOUND)
                       \/ BigLess(INT32_UPPERBOUND, val.n) THEN 18
               ELSE 16
    IN  IF val.t \in {"set", "bytes"} THEN <<>>
        ELSE IF "ko" \in DOMAIN key THEN <<tag>>
        ELSE <<tag>> \o KeyText(key) \o <<0>>
               \o (IF val.t = "UUID" THEN LittleEndian32(16) ELSE <<>>)

\* C30: the step in which dump fails rolls nothing back: the sink keeps
\* every byte it held and the bytes the failing write had already put
\* into it; no frame is closed and every frame open at the failure stays
\* on the stack with its length placeholder zero; the failure is dump's
\* last step, so nothing is closed later, dump returns no value and no
\* bytes are handed on to be decoded.
C30_NoRollbackOnFailure ==
    [][/\ (enc_pc # "raised" /\ enc_pc' = "raised")
          => /\ enc_stm'.buf
                  = enc_stm.buf
                      \o (IF enc_pc = "start" THEN <<>>
                          ELSE FailedWrite(NextPair[1], NextPair[2]))
             /\ enc_stm'.pos = Len(enc_stm'.buf)
             /\ enc_closed' = enc_closed
             /\ Len(enc_stack') = Len(enc_stack)
             /\ \A k \in 1..Len(enc_stack') :
                    /\ enc_stack'[k].starting_fpos
                         = enc_stack[k].starting_fpos
                    /\ SubSeq(enc_stm'.buf, enc_stack'[k].starting_fpos + 1,
                              enc_stack'[k].starting_fpos + 4)
                         = <<0, 0, 0, 0>>
       /\ enc_pc' = "raised" => enc_pc \in {"start", "running"}
       /\ enc_pc' = "raised" => dec_pc' = "idle"]_vars

\* C30 happens: dump has failed three containers below the root, with the
\* four frames open and bytes in the sink.
C30_Witness ==
    /\ enc_pc = "raised"
    /\ Len(enc_stack) = 4
    /\ enc_closed = <<>>
    /\ Len(enc_stm.buf) > 16

\* C31: decoding a document that holds one element of tag 0x11 emits for
\* it an event whose value is the unsigned 64-bit number its 8 payload
\* bytes hold in little-endian order, an int from 0 to 2^64 - 1, with the
\* cursor 8 bytes after the key's zero byte; the decode does not fail.
C31_CounterIsUnsigned64 ==
    (/\ dec_src = "crafted"
     /\ dec_wire \in WireCounterDocuments
     /\ dec_cls = "Subclass")
    => /\ Len(dec_trace) >= 2
          => /\ dec_trace[2].val = PyInt(UnpackUnsigned(dec_wire[1].payload))
             /\ dec_trace[2].pos = 4 + 1 + 2 + 8
       /\ dec_pc # "raised"


\* The path split at every '.' that no backslash precedes, each segment
\* with its escaped '.' characters restored; cur is the segment begun.
RECURSIVE SplitUnescaped(_, _)
SplitUnescaped(path, cur) ==
    IF path = <<>> THEN <<cur>>
    ELSE IF Len(path) >= 2 /\ path[1] = 92 /\ path[2] = 46
    THEN SplitUnescaped(SubSeq(path, 3, Len(path)), Append(cur, 46))
    ELSE IF path[1] = 46
    THEN <<cur>> \o SplitUnescaped(Tail(path), <<>>)
    ELSE SplitUnescaped(Tail(path), Append(cur, path[1]))

\* The keys from the root to the offending pair: the keys of the frames on
\* the stack, the root's empty key first, then the pair's own key.
KeysToOffender ==
    [i \in 1..Len(enc_stack) |-> FormatKey(enc_stack[i].key)]
      \o <<FormatKey(enc_key)>>

\* C32: when dump fails with an encode error, splitting the error's key
\* path at its unescaped '.' characters gives back exactly the keys from
\* the root to the offending pair, the pair's own key included, whether or
\* not the keys hold '.' characters.
C32_PathSplitsBackToKeys ==
    (enc_pc = "raised" /\ enc_obj.t = "dict"
       /\ enc_err.type = "BSONEncodeError")
    => SplitUnescaped(enc_err.key, <<>>) = KeysToOffender


\* The events whose yield takes no directive: the root's start, every
\* value and every END_DOCUMENT.
TakesNoDirective(i) ==
    \/ i = 1
    \/ dec_trace[i].val \notin {NESTED_DOCUMENT, NESTED_ARRAY}

\* The event after the i-th was read at the cursor the i-th left: a zero
\* byte there gives the END_DOCUMENT one byte on; any other tag gives the
\* event of the same frame whose key is the bytes after the tag up to the
\* first zero byte, the cursor past that zero byte.
FollowsAtCursor(i) ==
    LET p == dec_trace[i].pos
        nxt == dec_trace[i + 1]
    IN  IF SourceBuf[p + 1] = 0
        THEN /\ nxt.val = END_DOCUMENT
             /\ nxt.pos = p + 1
        ELSE /\ nxt.val # END_DOCUMENT
             /\ nxt.frame = dec_trace[i].frame
             /\ KeyBytes(nxt.key)
                  = SubSeq(SourceBuf, p + 2, FirstZeroFrom(p + 1))
             /\ nxt.pos > FirstZeroFrom(p + 1)

EventsFollowAtCursor ==
    \A i \in 1..(Len(dec_trace) - 1) : TakesNoDirective(i) => FollowsAtCursor(i)

TraversalsAgree(a, b) ==
    /\ (a.dec_src = "wire" /\ b.dec_src = "wire" /\ a.dec_wire = b.dec_wire)
       => /\ \A i \in 1..Len(a.dec_trace) :
                 i <= Len(b.dec_trace) => a.dec_trace[i] = b.dec_trace[i]
          /\ (a.dec_pc = "returned" /\ b.dec_pc = "returned")
             => /\ a.dec_trace = b.dec_trace
                /\ a.dec_stm = b.dec_stm
    /\ (/\ a.enc_obj = b.enc_obj
        /\ a.enc_pc \in {"done", "raised"}
        /\ b.enc_pc \in {"done", "raised"})
       => /\ a.enc_pc = b.enc_pc
          /\ a.enc_stm = b.enc_stm
          /\ a.enc_err = b.enc_err
          /\ a.enc_closed = b.enc_closed

====
